---------------------------- MODULE Spec2Model ----------------------------
(***************************************************************************)
(* Model of the detection pipeline of SSlogs: core/rule_engine.py          *)
(* (RuleEngine) and core/parser.py (LogParser).                            *)
(*                                                                         *)
(* Text.  A Python str is a sequence of tokens; a token is a fragment of   *)
(* the string (its concatenation is the string).  Case folding, stripping, *)
(* splitting and substring search are computed on the token sequence.      *)
(* Scores and confidences are kept in hundredths (7.5 is 750).             *)
(***************************************************************************)
EXTENDS Integers, Sequences, FiniteSets, TLC

VARIABLES
    phase,           \* engine: "Uninitialized", "Ready" or "Failed"
    ctor_error,      \* engine: exception raised by __init__, or "none"
    rules,           \* engine: self.rules
    compiled_rules,  \* engine: self.compiled_rules (insertion ordered)
    rule_stats,      \* engine: self.rule_stats, rule_id -> count
    calls,           \* engine: number of match_log calls made
    last_entry,      \* engine: log_entry of the latest match_log call
    last_ret,        \* engine: what that call did: [exc, results]
    log_fields,      \* parser: self.fields, [name, regex] in order; <<>> before the
                     \*         parser is constructed
    parsed_count,    \* parser: self.parsed_count
    failed_count,    \* parser: self.failed_count
    blocked_count,   \* parser: self.blocked_count
    parse_calls,     \* parser: number of parse_log_line calls made
    last_line,       \* parser: line of the latest parse_log_line call
    last_parse,      \* parser: what that call did: [exc, ret, record, path]
    rule_dir,        \* engine: the files of the directory given to the constructor
    repeat,          \* engine: whether the last match_log call was given the record of
                     \*         the call before it, and what that call returned
    returned,        \* engine: how many MatchResults match_log has returned so far,
                     \*         per rule_id and in all
    threads,         \* workers: per worker thread, where its match_log call stands:
                     \*          [pc, entry, todo, tmp, matched, results]
    quick,           \* matcher: [called, entry, exc, matches] of _quick_match on its own
    norm,            \* decoder: a text and the outputs of _decode_and_normalize applied
                     \*          to it and then to each output in turn
    score_in,        \* scorer: [called, rule, details] of _calculate_threat_score
    last_score,      \* scorer: the ThreatScore that call returned
    enable_ai_analysis,  \* engine: whether the AI analyzer is switched on
    ai_ret,          \* engine: [called, traditional, results] of match_log_with_ai:
                     \*         what match_log handed it and what it returned
    probe,           \* engine: [op, given, left, stats]: the record an operation was
                     \*         given, that record after the call, the statistics read
    field_pattern_cache, \* parser: the patterns of self._field_pattern_cache
    cache_hits,      \* parser: self.cache_hits
    cache_misses,    \* parser: self.cache_misses
    lookups          \* parser: how many times _partial_parse has looked a pattern up
                     \*         in the cache since the cache was last cleared

engineVars == <<phase, ctor_error, rules, compiled_rules, rule_stats, calls,
                last_entry, last_ret, rule_dir, returned, repeat>>
parserVars == <<log_fields, parsed_count, failed_count, blocked_count, parse_calls,
                last_line, last_parse, field_pattern_cache, cache_hits, cache_misses,
                lookups>>
scoreVars == <<score_in, last_score>>
unitVars == <<threads, quick, norm>>
extVars == <<enable_ai_analysis, ai_ret, probe>>
vars == <<phase, ctor_error, rules, compiled_rules, rule_stats, calls,
          last_entry, last_ret, log_fields, parsed_count, failed_count, blocked_count,
          parse_calls, last_line, last_parse, rule_dir, returned, repeat,
          threads, quick, norm, score_in, last_score,
          enable_ai_analysis, ai_ret, probe,
          field_pattern_cache, cache_hits, cache_misses, lookups>>

---------------------------------------------------------------------------
(* Bounds of the model.                                                    *)
MaxFiles == 2
MaxCalls == 2
MaxParseCalls == 3
MaxThreads == 2
MaxNormalize == 4

---------------------------------------------------------------------------
(* Text helpers.                                                           *)

Absent == "<absent>"

\* str.lower() on one token.
Lower(tok) ==
    CASE tok = "Googlebot"     -> "googlebot"
      [] tok = "BINGBOT"       -> "bingbot"
      [] tok = "Slurp"         -> "slurp"
      [] tok = "DuckDuckBot"   -> "duckduckbot"
      [] tok = "Mozilla/5.0"   -> "mozilla/5.0"
      [] tok = "UNION SELECT"  -> "union select"
      [] tok = "User_Agent"    -> "user_agent"
      [] tok = "Referer"       -> "referer"
      [] tok = "X-Auth"        -> "x-auth"
      [] tok = "SQLMap"        -> "sqlmap"
      [] OTHER                 -> tok

LowerText(s) == [i \in 1..Len(s) |-> Lower(s[i])]

\* Python `needle in hay` on strings.
Contains(hay, needle) ==
    \E i \in 0..(Len(hay) - Len(needle)) : SubSeq(hay, i + 1, i + Len(needle)) = needle

IsSpace(tok) == tok \in {" ", "\t"}

\* str.strip()
RECURSIVE LStrip(_)
LStrip(s) == IF s # <<>> /\ IsSpace(Head(s)) THEN LStrip(Tail(s)) ELSE s

RECURSIVE RStrip(_)
RStrip(s) ==
    IF s # <<>> /\ IsSpace(s[Len(s)]) THEN RStrip(SubSeq(s, 1, Len(s) - 1)) ELSE s

Strip(s) == LStrip(RStrip(s))

\* Index of the first occurrence of token sep in s, 0 when there is none.
RECURSIVE IndexOf(_, _, _)
IndexOf(s, sep, i) ==
    IF i > Len(s) THEN 0 ELSE IF s[i] = sep THEN i ELSE IndexOf(s, sep, i + 1)

\* str.split(sep)
RECURSIVE Split(_, _)
Split(s, sep) ==
    LET i == IndexOf(s, sep, 1)
    IN IF i = 0 THEN <<s>>
       ELSE <<SubSeq(s, 1, i - 1)>> \o Split(SubSeq(s, i + 1, Len(s)), sep)

---------------------------------------------------------------------------
(* Python values held by a log entry: str, int, None, dict, list.  Every   *)
(* value has the same shape; t is the type tag.  A dict is the sequence of *)
(* its <<key, value>> items in insertion order, keys being values too.     *)

StrV(s)  == [t |-> "str",  s |-> s,    n |-> 0, d |-> <<>>, l |-> <<>>]
IntV(n)  == [t |-> "int",  s |-> <<>>, n |-> n, d |-> <<>>, l |-> <<>>]
NoneV    == [t |-> "none", s |-> <<>>, n |-> 0, d |-> <<>>, l |-> <<>>]
DictV(d) == [t |-> "dict", s |-> <<>>, n |-> 0, d |-> d,    l |-> <<>>]
ListV(l) == [t |-> "list", s |-> <<>>, n |-> 0, d |-> <<>>, l |-> l]

\* bool(v)
Truthy(v) ==
    CASE v.t = "str"  -> v.s # <<>>
      [] v.t = "int"  -> v.n # 0
      [] v.t = "none" -> FALSE
      [] v.t = "dict" -> v.d # <<>>
      [] v.t = "list" -> v.l # <<>>

\* key in d, d[key], d[key] = v (an existing key keeps its position).
HasKey(d, k) == \E i \in 1..Len(d) : d[i][1] = k
Lookup(d, k) == d[CHOOSE i \in 1..Len(d) : d[i][1] = k][2]
DictSet(d, k, v) ==
    IF HasKey(d, k)
    THEN [i \in 1..Len(d) |-> IF d[i][1] = k THEN <<k, v>> ELSE d[i]]
    ELSE Append(d, <<k, v>>)

RECURSIVE DictUpdate(_, _)
DictUpdate(d, e) ==
    IF e = <<>> THEN d ELSE DictUpdate(DictSet(d, e[1][1], e[1][2]), Tail(e))

\* str(v) and repr(v)
RECURSIVE Repr(_)
RECURSIVE ReprItems(_)
RECURSIVE ReprList(_)
Repr(v) ==
    CASE v.t = "str"  -> <<"'">> \o v.s \o <<"'">>
      [] v.t = "int"  -> <<ToString(v.n)>>
      [] v.t = "none" -> <<"None">>
      [] v.t = "dict" -> <<"{">> \o ReprItems(v.d) \o <<"}">>
      [] v.t = "list" -> <<"[">> \o ReprList(v.l) \o <<"]">>
ReprItems(d) ==
    IF d = <<>> THEN <<>>
    ELSE Repr(d[1][1]) \o <<": ">> \o Repr(d[1][2])
         \o (IF Len(d) > 1 THEN <<", ">> ELSE <<>>) \o ReprItems(Tail(d))
ReprList(l) ==
    IF l = <<>> THEN <<>>
    ELSE Repr(l[1]) \o (IF Len(l) > 1 THEN <<", ">> ELSE <<>>) \o ReprList(Tail(l))

PyStr(v) == IF v.t = "str" THEN v.s ELSE Repr(v)

---------------------------------------------------------------------------
(* Decoder: RuleEngine._decode_and_normalize.                              *)

\* Number of characters of one token.
TokLen(tok) ==
    CASE tok = "/x?id"        -> 5
      [] tok = "1 "           -> 2
      [] tok = " 1"           -> 2
      [] tok = "UNION SELECT" -> 12
      [] tok = "union select" -> 12
      [] tok = "%3C"          -> 3
      [] tok = "%3E"          -> 3
      [] tok = "&lt;"         -> 4
      [] tok = "&gt;"         -> 4
      [] tok = "script"       -> 6
      [] tok = "PHNjcmlwdD4=" -> 12
      [] tok = "/index"       -> 6
      [] tok = "x*10001"      -> 10001
      [] tok = "x*1500"       -> 1500
      [] tok = "x*1000"       -> 1000
      [] tok = "<*1500"       -> 1500
      [] tok = "<*1000"       -> 1000
      [] tok = "&lt;*1000"    -> 4000
      [] tok = "...[truncated]" -> 7
      [] tok = "%253C"        -> 5
      [] tok = "%25253C"      -> 7
      [] tok = "%2541"        -> 5
      [] tok = "%41"          -> 3
      [] tok = "%26lt%3B"     -> 8
      [] tok = "&amp;lt;"     -> 8
      [] tok = "&amp;"        -> 5
      [] tok = "UEhOamNtbHdkRDQ9" -> 16
      [] tok = "JTNDc2NyaXB0JTNF" -> 16
      [] tok = "JmFtcDs="     -> 8
      [] tok = "abcd"         -> 4
      [] tok = "abcdefgh"     -> 8
      [] tok = "aWQ="         -> 4
      [] tok = "ab="          -> 3
      [] tok = "/api"         -> 4
      [] tok = "../"          -> 3
      [] tok = "etc/passwd"   -> 10
      [] tok = "/etc/passwd"  -> 11
      [] tok = "sqlmap"       -> 6
      [] tok = "y!"           -> 2
      [] tok = "sZ"           -> 2
      [] tok = "id"           -> 2
      [] OTHER                -> 1

RECURSIVE TextLen(_)
TextLen(s) == IF s = <<>> THEN 0 ELSE TokLen(Head(s)) + TextLen(Tail(s))

\* An unquote that also escapes a bare angle bracket.
UnquoteTokToggling(tok) ==
    CASE tok = "%3C" -> "<"
      [] tok = "%3E" -> ">"
      [] tok = "<"   -> "%3C"
      [] tok = ">"   -> "%3E"
      [] OTHER       -> tok

\* urllib.parse.unquote: percent-escapes become the character they encode
\* (%25 is the percent sign, %26 the ampersand, %3B the semicolon).
UnquoteTok(tok) ==
    CASE tok = "%3C"      -> "<"
      [] tok = "%3E"      -> ">"
      [] tok = "%253C"    -> "%3C"
      [] tok = "%25253C"  -> "%253C"
      [] tok = "%2541"    -> "%41"
      [] tok = "%41"      -> "A"
      [] tok = "%26lt%3B" -> "&lt;"
      [] OTHER            -> tok

Unquote(s) == [i \in 1..Len(s) |-> UnquoteTok(s[i])]

\* html.unescape: entities become the character they name.
HtmlUnescapeTok(tok) ==
    CASE tok = "&lt;"     -> "<"
      [] tok = "&gt;"     -> ">"
      [] tok = "&amp;lt;" -> "&lt;"
      [] tok = "&amp;"    -> "&"
      [] OTHER            -> tok

HtmlUnescape(s) == [i \in 1..Len(s) |-> HtmlUnescapeTok(s[i])]

EndsWithEquals(s) ==
    s # <<>> /\ s[Len(s)] \in {"=", "PHNjcmlwdD4=", "aWQ=", "ab=", "JmFtcDs="}

\* base64.b64decode(text).decode('utf-8', errors='ignore'): ok is FALSE when
\* b64decode raises (incorrect padding once the characters outside the
\* alphabet are discarded).
B64Decode(s) ==
    CASE s = <<"PHNjcmlwdD4=">> -> [ok |-> TRUE, out |-> <<"<", "script", ">">>]
      [] s = <<"UEhOamNtbHdkRDQ9">> -> [ok |-> TRUE, out |-> <<"PHNjcmlwdD4=">>]
      [] s = <<"JTNDc2NyaXB0JTNF">> -> [ok |-> TRUE, out |-> <<"%3C", "script", "%3E">>]
      [] s = <<"JmFtcDs=">> -> [ok |-> TRUE, out |-> <<"&amp;">>]
      [] s = <<"aWQ=">> -> [ok |-> TRUE, out |-> <<"id">>]
      [] s = <<"abcd">> -> [ok |-> TRUE, out |-> <<"i", "<0x1d>">>]
      [] s = <<"abcdefgh">> -> [ok |-> TRUE, out |-> <<"i", "<0x1d>", "y!">>]
      [] s = <<"/api">> -> [ok |-> TRUE, out |-> <<"b">>]
      [] s = <<"../", "../", "etc/passwd">> -> [ok |-> TRUE, out |-> <<"sZ", "<0x1d>">>]
      [] OTHER                  -> [ok |-> FALSE, out |-> <<>>]

\* any(c.isprintable() for c in text)
AnyPrintable(s) == s # <<>>

DecodeAndNormalize(text) ==
    IF text = <<>> THEN <<>>
    ELSE LET decoded == HtmlUnescape(Unquote(text))
             stripped == Strip(decoded)
         IN IF EndsWithEquals(stripped) \/ TextLen(stripped) % 4 = 0
            THEN LET b == B64Decode(decoded)
                 IN IF b.ok /\ AnyPrintable(b.out) THEN b.out ELSE decoded
            ELSE decoded

---------------------------------------------------------------------------
(* Attack context: RuleEngine._extract_attack_context.                     *)

\* '+' is a blank in a query string.
PlusToSpace(s) == [i \in 1..Len(s) |-> IF s[i] = "+" THEN " " ELSE s[i]]

\* The name=value pairs of urllib.parse.parse_qs, in order: a piece without
\* '=' and a piece with a blank value are dropped.
RECURSIVE QsPairs(_)
QsPairs(pieces) ==
    IF pieces = <<>> THEN <<>>
    ELSE LET piece == Head(pieces)
             i == IndexOf(piece, "=", 1)
             name == Unquote(PlusToSpace(SubSeq(piece, 1, i - 1)))
             value == Unquote(PlusToSpace(SubSeq(piece, i + 1, Len(piece))))
         IN IF i = 0 \/ i = Len(piece)
            THEN QsPairs(Tail(pieces))
            ELSE <<<<name, value>>>> \o QsPairs(Tail(pieces))

\* context[f'param_{key}'] = values[0] for every key of parse_qs(text).
RECURSIVE ParamContext(_, _)
ParamContext(context, pairs) ==
    IF pairs = <<>> THEN context
    ELSE LET key == StrV(<<"param_">> \o pairs[1][1])
         IN ParamContext(IF HasKey(context, key) THEN context
                         ELSE Append(context, <<key, StrV(pairs[1][2])>>),
                         Tail(pairs))

\* The request_path block: parse_qs of a value that is not a str yields
\* nothing or raises, and the bare except swallows it.
PathParams(entry) ==
    IF ~HasKey(entry, StrV(<<"request_path">>)) THEN <<>>
    ELSE LET v == Lookup(entry, StrV(<<"request_path">>))
         IN IF v.t = "str" THEN ParamContext(<<>>, QsPairs(Split(v.s, "&"))) ELSE <<>>

\* The lines of a request_headers string: 'Key: value' per line.
RECURSIVE HeaderLines(_, _)
HeaderLines(headers, lines) ==
    IF lines = <<>> THEN headers
    ELSE LET line == Head(lines)
             i == IndexOf(line, ":", 1)
         IN IF i = 0 THEN HeaderLines(headers, Tail(lines))
            ELSE HeaderLines(
                     DictSet(headers,
                             StrV(LowerText(Strip(SubSeq(line, 1, i - 1)))),
                             StrV(Strip(SubSeq(line, i + 1, Len(line))))),
                     Tail(lines))

InitialHeaders(entry) ==
    IF ~HasKey(entry, StrV(<<"request_headers">>)) THEN <<>>
    ELSE LET v == Lookup(entry, StrV(<<"request_headers">>))
         IN CASE v.t = "dict" -> DictUpdate(<<>>, v.d)
              [] v.t = "str"  -> HeaderLines(<<>>, Split(v.s, "\n"))
              [] OTHER        -> <<>>

HeaderFields ==
    << <<"user_agent">>, <<"referer">>, <<"x_forwarded_for">>, <<"x-auth">>, <<"x-block">> >>

\* for header_key, header_value in headers.items(): header_key.lower() raises
\* AttributeError on a key that is not a str.
RECURSIVE FindHeader(_, _, _)
FindHeader(headers, field, i) ==
    IF i > Len(headers) THEN [exc |-> FALSE, found |-> FALSE, value |-> NoneV]
    ELSE IF headers[i][1].t # "str" THEN [exc |-> TRUE, found |-> FALSE, value |-> NoneV]
    ELSE IF LowerText(headers[i][1].s) = LowerText(field)
         THEN [exc |-> FALSE, found |-> TRUE, value |-> headers[i][2]]
    ELSE FindHeader(headers, field, i + 1)

RECURSIVE AddHeaderFields(_, _, _)
AddHeaderFields(entry, headers, fields) ==
    IF fields = <<>> THEN [exc |-> FALSE, headers |-> headers]
    ELSE LET f == Head(fields)
         IN IF HasKey(entry, StrV(f))
            THEN AddHeaderFields(entry, DictSet(headers, StrV(f), Lookup(entry, StrV(f))),
                                 Tail(fields))
            ELSE IF headers # <<>>
            THEN LET r == FindHeader(headers, f, 1)
                 IN IF r.exc THEN [exc |-> TRUE, headers |-> headers]
                    ELSE IF r.found
                    THEN AddHeaderFields(entry, DictSet(headers, StrV(f), r.value),
                                         Tail(fields))
                    ELSE AddHeaderFields(entry, headers, Tail(fields))
            ELSE AddHeaderFields(entry, headers, Tail(fields))

BodyContext(entry) ==
    IF ~HasKey(entry, StrV(<<"request_body">>)) THEN <<>>
    ELSE LET body == Lookup(entry, StrV(<<"request_body">>))
         IN CASE body.t = "dict" -> << <<StrV(<<"body">>), StrV(PyStr(body))>> >>
              [] body.t = "str"  -> << <<StrV(<<"body">>), body>> >>
              [] OTHER           -> <<>>

SpecialFields == << <<"status_code">>, <<"response_size">>, <<"processing_time">> >>

RECURSIVE SpecialContext(_, _)
SpecialContext(entry, fields) ==
    IF fields = <<>> THEN <<>>
    ELSE (IF HasKey(entry, StrV(Head(fields)))
          THEN << <<StrV(Head(fields)), StrV(PyStr(Lookup(entry, StrV(Head(fields)))))>> >>
          ELSE <<>>) \o SpecialContext(entry, Tail(fields))

\* [exc, context]: exc when an exception escapes the method.
ExtractAttackContext(entry) ==
    LET h == AddHeaderFields(entry, InitialHeaders(entry), HeaderFields)
    IN IF h.exc THEN [exc |-> TRUE, context |-> <<>>]
       ELSE [exc |-> FALSE,
             context |-> DictUpdate(DictUpdate(DictUpdate(PathParams(entry), h.headers),
                                               BodyContext(entry)),
                                    SpecialContext(entry, SpecialFields))]

---------------------------------------------------------------------------
(* Field resolution: RuleEngine._get_field_value.  NoneV is Python's None, *)
(* returned when nothing is found.                                         *)

RECURSIVE GetFieldValue(_, _)
RECURSIVE GetNested(_, _, _)
RECURSIVE GetInList(_, _, _)

GetFieldValue(d, name) ==
    IF d = <<>> \/ name = <<>> THEN NoneV
    ELSE IF HasKey(d, StrV(name)) THEN Lookup(d, StrV(name))
    ELSE GetNested(d, name, 1)

GetNested(d, name, i) ==
    IF i > Len(d) THEN NoneV
    ELSE LET v == d[i][2]
             r == CASE v.t = "dict" -> GetFieldValue(v.d, name)
                    [] v.t = "list" -> GetInList(v.l, name, 1)
                    [] OTHER        -> NoneV
         IN IF r.t # "none" THEN r ELSE GetNested(d, name, i + 1)

GetInList(l, name, j) ==
    IF j > Len(l) THEN NoneV
    ELSE LET r == IF l[j].t = "dict" THEN GetFieldValue(l[j].d, name) ELSE NoneV
         IN IF r.t # "none" THEN r ELSE GetInList(l, name, j + 1)

---------------------------------------------------------------------------
(* Rules.  A rule is the dict loaded from one YAML file; a key the file    *)
(* does not give holds Absent (lists: the empty list).  pattern is         *)
(* [kind, items, s]: a mapping field -> pattern string, or one string.     *)

\* dict.get(key, default) on a rule.
RuleGet(rule, key, default) == IF rule[key] = Absent THEN default ELSE rule[key]

\* dict.get(key, default) on a dict held as a record.
DictGet(m, key, default) == IF key \in DOMAIN m THEN m[key] ELSE default

\* re.compile raises re.error on an unbalanced parenthesis.
PatternCompiles(pat) == \A i \in 1..Len(pat) : pat[i] # "("

\* regex.search of a literal pattern compiled with re.IGNORECASE | re.DOTALL.
RegexSearch(pat, value) == Contains(LowerText(value), LowerText(pat))

EndsWithParams(field) == field # <<>> /\ field[Len(field)] = "_params"

\* field.replace('_params', '')
RemoveParams(field) == SelectSeq(field, LAMBDA tok : tok # "_params")

\* [exc, compiled]: compiled is the dict field name -> pattern info.
CompileSingleRule(rule) ==
    LET pattern == rule.pattern
    IN CASE pattern.kind = "dict" ->
              IF \E i \in 1..Len(pattern.items) : ~PatternCompiles(pattern.items[i][2])
              THEN [exc |-> TRUE, compiled |-> <<>>]
              ELSE [exc |-> FALSE,
                    compiled |->
                      [i \in 1..Len(pattern.items) |->
                         LET field == pattern.items[i][1]
                         IN [key |-> field,
                             regex |-> pattern.items[i][2],
                             needs_decode |-> EndsWithParams(field),
                             field |-> IF EndsWithParams(field)
                                       THEN RemoveParams(field) ELSE field]]]
         [] pattern.kind = "str" ->
              IF ~PatternCompiles(pattern.s)
              THEN [exc |-> TRUE, compiled |-> <<>>]
              ELSE [exc |-> FALSE,
                    compiled |-> << [key |-> <<"legacy">>, regex |-> pattern.s,
                                     needs_decode |-> FALSE, field |-> <<"combined">>] >>]
         [] OTHER -> [exc |-> FALSE, compiled |-> <<>>]

\* rule_id = f"{rule.get('category', 'unknown')}_{i}", i counted from 0.
RuleId(rule, i) == <<RuleGet(rule, "category", "unknown"), i>>

\* _compile_rules: a rule whose compilation raises is left out.
RECURSIVE CompileRules(_, _)
CompileRules(rs, i) ==
    IF i > Len(rs) THEN <<>>
    ELSE LET c == CompileSingleRule(rs[i])
         IN (IF c.exc THEN <<>>
             ELSE << [rule |-> rs[i], compiled |-> c.compiled, id |-> RuleId(rs[i], i - 1)] >>)
            \o CompileRules(rs, i + 1)

\* open(file, 'r', encoding='utf-8') and yaml.safe_load(f): the read of a file
\* whose bytes are not UTF-8 raises UnicodeDecodeError, which is no
\* yaml.YAMLError and so leaves _load_rules.
LoadRaises(files) == \E i \in 1..Len(files) : files[i].kind = "undecodable"

\* _load_rules over the files of an existing directory: a file is kept when
\* it parses to a dict holding 'name' and 'pattern'.
RECURSIVE LoadRules(_)
LoadRules(files) ==
    IF files = <<>> THEN <<>>
    ELSE (IF Head(files).kind = "dict" /\ Head(files).rule.name # Absent
             /\ Head(files).rule.pattern.kind # "absent"
          THEN <<[Head(files).rule EXCEPT !.source_file = Head(files).fname]>>
          ELSE <<>>) \o LoadRules(Tail(files))

---------------------------------------------------------------------------
(* Quick match: RuleEngine._quick_match.                                   *)

\* A matcher that searches the value as it was received.
SearchedValueRaw(info, original_value) == original_value

\* The value regex.search is given: the decoded one for a pattern that needs
\* decoding.
SearchedValue(info, original_value) ==
    IF info.needs_decode THEN DecodeAndNormalize(original_value) ELSE original_value

\* The loop over compiled.items() of one rule, from pattern i on.
RECURSIVE MatchFields(_, _, _, _, _)
MatchFields(compiled, entry, context, i, details) ==
    IF i > Len(compiled) THEN details
    ELSE LET info == compiled[i]
             a == GetFieldValue(entry, info.field)
             field_value == IF Truthy(a) THEN a ELSE GetFieldValue(context, info.field)
             original_value == PyStr(field_value)
             value == SearchedValue(info, original_value)
             decoded == info.needs_decode /\ value # original_value
             d1 == [details EXCEPT !.required_decode = @ \/ decoded]
             d2 == IF RegexSearch(info.regex, value)
                   THEN [d1 EXCEPT !.matched_fields = Append(@, info.field)] ELSE d1
         IN IF ~Truthy(field_value)
            THEN MatchFields(compiled, entry, context, i + 1, details)
            ELSE MatchFields(compiled, entry, context, i + 1, d2)

\* A matcher that makes a rule a candidate only when all its patterns matched.
RECURSIVE MatchRulesAllFields(_, _, _, _)
MatchRulesAllFields(cr, entry, context, i) ==
    IF i > Len(cr) THEN <<>>
    ELSE LET details == MatchFields(cr[i].compiled, entry, context, 1,
                                    [matched_fields |-> <<>>, required_decode |-> FALSE])
         IN (IF Len(details.matched_fields) = Len(cr[i].compiled) /\ cr[i].compiled # <<>>
             THEN << [rule |-> cr[i].rule, details |-> details, rule_id |-> cr[i].id] >>
             ELSE <<>>) \o MatchRulesAllFields(cr, entry, context, i + 1)

RECURSIVE MatchRules(_, _, _, _)
MatchRules(cr, entry, context, i) ==
    IF i > Len(cr) THEN <<>>
    ELSE LET details == MatchFields(cr[i].compiled, entry, context, 1,
                                    [matched_fields |-> <<>>, required_decode |-> FALSE])
         IN (IF details.matched_fields # <<>>
             THEN << [rule |-> cr[i].rule, details |-> details, rule_id |-> cr[i].id] >>
             ELSE <<>>) \o MatchRules(cr, entry, context, i + 1)

\* [exc, matches]
QuickMatch(cr, entry) ==
    LET c == ExtractAttackContext(entry)
    IN IF c.exc THEN [exc |-> TRUE, matches |-> <<>>]
       ELSE [exc |-> FALSE, matches |-> MatchRules(cr, entry, c.context, 1)]

---------------------------------------------------------------------------
(* Context analysis: RuleEngine._context_analysis.                         *)

safe_agents == << <<"googlebot">>, <<"bingbot">>, <<"slurp">>, <<"duckduckbot">> >>

\* The crawler test without the lower() of the user agent.
ContextAnalysisCaseSensitive(match, entry) ==
    LET ua == IF HasKey(entry, StrV(<<"user_agent">>))
              THEN Lookup(entry, StrV(<<"user_agent">>)) ELSE StrV(<<>>)
    IN IF ua.t # "str" THEN "raise"
       ELSE IF \E k \in 1..Len(safe_agents) : Contains(ua.s, safe_agents[k])
       THEN "drop" ELSE "keep"

\* "raise" when log_entry.get('user_agent', '').lower() raises AttributeError,
\* otherwise the bool returned.
ContextAnalysis(match, entry) ==
    LET ua == IF HasKey(entry, StrV(<<"user_agent">>))
              THEN Lookup(entry, StrV(<<"user_agent">>)) ELSE StrV(<<>>)
    IN IF ua.t # "str" THEN "raise"
       ELSE IF \E k \in 1..Len(safe_agents) : Contains(LowerText(ua.s), safe_agents[k])
       THEN "drop" ELSE "keep"

---------------------------------------------------------------------------
(* Threat score: RuleEngine._calculate_threat_score, in hundredths.        *)

severity_scores(sev) ==
    CASE sev = "critical" -> 950
      [] sev = "high"     -> 750
      [] sev = "medium"   -> 550
      [] sev = "low"      -> 350
      [] OTHER            -> 550

WeightedFields ==
    { <<"request_body">>, <<"params">>, <<"user_agent">>, <<"request_path">>,
      <<"request_headers">>, <<"src_ip">> }

field_weights(field) ==
    CASE field = <<"request_body">>    -> 150
      [] field = <<"params">>          -> 120
      [] field = <<"user_agent">>      -> 80
      [] field = <<"request_path">>    -> 100
      [] field = <<"request_headers">> -> 130
      [] field = <<"src_ip">>          -> 70
      [] OTHER                         -> 0

FieldVectors(field) ==
    CASE field = <<"request_body">>    -> {"payload_injection"}
      [] field = <<"params">>          -> {"parameter_pollution"}
      [] field = <<"user_agent">>      -> {"automated_attack"}
      [] field = <<"request_headers">> -> {"header_manipulation"}
      [] OTHER                         -> {}

FieldRisks(field) ==
    CASE field = <<"request_body">>    -> {"complex_attack"}
      [] field = <<"user_agent">>      -> {"tool_detected"}
      [] field = <<"request_headers">> -> {"protocol_abuse"}
      [] OTHER                         -> {}

Categories ==
    { "rce", "injection", "sql_injection", "xss", "ssrf", "file_inclusion",
      "command_injection", "log4j_vulnerability", "api_security",
      "threat_intelligence", "supply_chain", "zero_trust", "automated_response",
      "privacy_compliance", "financial_security", "user_behavior", "attack_chain",
      "ai_ml_anomaly", "cloud_native", "file_upload" }

category_threats(c) ==
    CASE c = "rce" -> [score |-> 250, vector |-> "remote_code_execution", risk |-> "system_compromise"]
      [] c = "injection" -> [score |-> 200, vector |-> "code_injection", risk |-> "data_manipulation"]
      [] c = "sql_injection" -> [score |-> 280, vector |-> "database_compromise", risk |-> "data_breach"]
      [] c = "xss" -> [score |-> 180, vector |-> "client_side_attack", risk |-> "session_hijack"]
      [] c = "ssrf" -> [score |-> 220, vector |-> "server_side_request", risk |-> "internal_network_access"]
      [] c = "file_inclusion" -> [score |-> 230, vector |-> "file_manipulation", risk |-> "code_execution"]
      [] c = "command_injection" -> [score |-> 260, vector |-> "system_command_execution", risk |-> "privilege_escalation"]
      [] c = "log4j_vulnerability" -> [score |-> 300, vector |-> "jndi_injection", risk |-> "remote_code_execution"]
      [] c = "api_security" -> [score |-> 190, vector |-> "api_abuse", risk |-> "unauthorized_access"]
      [] c = "threat_intelligence" -> [score |-> 210, vector |-> "known_threat", risk |-> "confirmed_attack"]
      [] c = "supply_chain" -> [score |-> 240, vector |-> "supply_chain_attack", risk |-> "wide_impact"]
      [] c = "zero_trust" -> [score |-> 170, vector |-> "trust_violation", risk |-> "policy_breach"]
      [] c = "automated_response" -> [score |-> 150, vector |-> "automation_trigger", risk |-> "mass_attack"]
      [] c = "privacy_compliance" -> [score |-> 160, vector |-> "privacy_violation", risk |-> "compliance_breach"]
      [] c = "financial_security" -> [score |-> 270, vector |-> "financial_fraud", risk |-> "monetary_loss"]
      [] c = "user_behavior" -> [score |-> 140, vector |-> "behavioral_anomaly", risk |-> "insider_threat"]
      [] c = "attack_chain" -> [score |-> 290, vector |-> "multi_stage_attack", risk |-> "advanced_persistent_threat"]
      [] c = "ai_ml_anomaly" -> [score |-> 130, vector |-> "anomaly_detection", risk |-> "unknown_pattern"]
      [] c = "cloud_native" -> [score |-> 200, vector |-> "cloud_attack", risk |-> "container_escape"]
      [] c = "file_upload" -> [score |-> 250, vector |-> "malicious_upload", risk |-> "webshell_implant"]

\* The keywords of the source that are written in Chinese are spelled here
\* by their pinyin: sql-zhuru, mingling-zhuru, wenjian-baohan, fanxuliehua;
\* lujing-bianli, xinxi-xielou, quanxian-raoguo.
high_risk_patterns ==
    { "remote_code_execution", "sql-zhuru", "mingling-zhuru", "wenjian-baohan",
      "SSRF", "fanxuliehua" }
medium_risk_patterns ==
    { "XSS", "CSRF", "lujing-bianli", "xinxi-xielou", "quanxian-raoguo" }

IsHighRisk(p) == \E k \in high_risk_patterns : Contains(p, <<k>>)
IsMediumRisk(p) == \E k \in medium_risk_patterns : Contains(p, <<k>>)

\* for field in matched_fields: if field in field_weights: ...
RECURSIVE SumFieldWeights(_)
SumFieldWeights(fields) ==
    IF fields = <<>> THEN 0 ELSE field_weights(Head(fields)) + SumFieldWeights(Tail(fields))

\* A confidence bonus given for every matched field, weighted or not.
SumFieldConfidenceAllFields(fields) == 8 * Len(fields)

RECURSIVE SumFieldConfidence(_)
SumFieldConfidence(fields) ==
    IF fields = <<>> THEN 0
    ELSE (IF Head(fields) \in WeightedFields THEN 8 ELSE 0) + SumFieldConfidence(Tail(fields))

\* for pattern in attack_patterns: high risk, elif medium risk
RECURSIVE SumPatternScore(_)
SumPatternScore(ps) ==
    IF ps = <<>> THEN 0
    ELSE (IF IsHighRisk(Head(ps)) THEN 100 ELSE IF IsMediumRisk(Head(ps)) THEN 50 ELSE 0)
         + SumPatternScore(Tail(ps))

RECURSIVE SumPatternConfidence(_)
SumPatternConfidence(ps) ==
    IF ps = <<>> THEN 0
    ELSE (IF IsHighRisk(Head(ps)) THEN 10 ELSE IF IsMediumRisk(Head(ps)) THEN 5 ELSE 0)
         + SumPatternConfidence(Tail(ps))

Min(a, b) == IF a <= b THEN a ELSE b
Max(a, b) == IF a >= b THEN a ELSE b

\* A clamp that forgets the ceiling of 10.0.
ClampScoreNoCeiling(x) == Max(x, 100)

\* base_score = min(max(base_score, 1.0), 10.0)
ClampScore(x) == Min(Max(x, 100), 1000)
\* confidence = min(max(confidence, 0.1), 1.0)
ClampConfidence(x) == Min(Max(x, 10), 100)

\* Thresholds compared with > where the code compares with >=.
FinalSeverityStrict(score) ==
    IF score > 900 THEN "critical"
    ELSE IF score > 750 THEN "high"
    ELSE IF score > 500 THEN "medium"
    ELSE "low"

\* The final severity thresholds.
FinalSeverity(score) ==
    IF score >= 900 THEN "critical"
    ELSE IF score >= 750 THEN "high"
    ELSE IF score >= 500 THEN "medium"
    ELSE "low"

dangerous_codes == {200, 201, 202}

\* The score before clamping.
RawScore(rule, match_details) ==
    LET matched_fields == DictGet(match_details, "matched_fields", <<>>)
        category == RuleGet(rule, "category", "")
        threat_level == RuleGet(rule, "threat_level", "")
        pattern_count == IF rule.pattern.kind = "dict" THEN Len(rule.pattern.items) ELSE 0
    IN severity_scores(RuleGet(rule, "severity", "medium"))
       + SumFieldWeights(matched_fields)
       + (IF DictGet(match_details, "required_decode", FALSE) THEN 200 ELSE 0)
       + (IF category \in Categories THEN category_threats(category).score ELSE 0)
       + SumPatternScore(rule.attack_patterns)
       + (IF pattern_count >= 5 THEN 30 ELSE IF pattern_count >= 3 THEN 15 ELSE 0)
       + (IF threat_level = "critical" THEN 100 ELSE IF threat_level = "high" THEN 50 ELSE 0)
       + (IF \E i \in 1..Len(rule.response_codes) : rule.response_codes[i] \in dangerous_codes
          THEN 40 ELSE 0)

\* The confidence before clamping.
RawConfidence(rule, match_details) ==
    LET matched_fields == DictGet(match_details, "matched_fields", <<>>)
        category == RuleGet(rule, "category", "")
        threat_level == RuleGet(rule, "threat_level", "")
        pattern_count == IF rule.pattern.kind = "dict" THEN Len(rule.pattern.items) ELSE 0
    IN 50
       + SumFieldConfidence(matched_fields)
       + (IF DictGet(match_details, "required_decode", FALSE) THEN 15 ELSE 0)
       + (IF category \in Categories THEN 12 ELSE 0)
       + SumPatternConfidence(rule.attack_patterns)
       + (IF pattern_count >= 5 THEN 5 ELSE 0)
       + (IF threat_level = "critical" THEN 10 ELSE 0)
       + (IF \E i \in 1..Len(rule.response_codes) : rule.response_codes[i] \in dangerous_codes
          THEN 8 ELSE 0)

AttackVectors(rule, match_details) ==
    LET matched_fields == DictGet(match_details, "matched_fields", <<>>)
        category == RuleGet(rule, "category", "")
    IN UNION { FieldVectors(matched_fields[i]) : i \in 1..Len(matched_fields) }
       \cup (IF DictGet(match_details, "required_decode", FALSE)
             THEN {"evasion_technique"} ELSE {})
       \cup (IF category \in Categories THEN {category_threats(category).vector} ELSE {})

RiskFactors(rule, match_details) ==
    LET matched_fields == DictGet(match_details, "matched_fields", <<>>)
        category == RuleGet(rule, "category", "")
    IN UNION { FieldRisks(matched_fields[i]) : i \in 1..Len(matched_fields) }
       \cup (IF DictGet(match_details, "required_decode", FALSE)
             THEN {"obfuscation_attempt"} ELSE {})
       \cup (IF category \in Categories THEN {category_threats(category).risk} ELSE {})

CalculateThreatScore(rule, match_details) ==
    LET base_score == ClampScore(RawScore(rule, match_details))
    IN [score |-> base_score,
        severity |-> FinalSeverity(base_score),
        confidence |-> ClampConfidence(RawConfidence(rule, match_details)),
        attack_vectors |-> AttackVectors(rule, match_details),
        risk_factors |-> RiskFactors(rule, match_details)]

---------------------------------------------------------------------------
(* RuleEngine.match_log.                                                   *)

\* matched.sort(key=lambda x: x['threat_score'].score, reverse=True): the
\* sort is stable, equal scores keep their order.
RECURSIVE InsertByScore(_, _)
InsertByScore(sorted, r) ==
    IF sorted = <<>> THEN <<r>>
    ELSE IF Head(sorted).threat_score.score >= r.threat_score.score
         THEN <<Head(sorted)>> \o InsertByScore(Tail(sorted), r)
         ELSE <<r>> \o sorted

RECURSIVE SortByScore(_)
SortByScore(matched) ==
    IF matched = <<>> THEN <<>>
    ELSE InsertByScore(SortByScore(SubSeq(matched, 1, Len(matched) - 1)),
                       matched[Len(matched)])

\* A descending sort that is not stable: a result goes before the results
\* of equal score already placed.
RECURSIVE InsertBeforeTies(_, _)
InsertBeforeTies(sorted, r) ==
    IF sorted = <<>> THEN <<r>>
    ELSE IF Head(sorted).threat_score.score > r.threat_score.score
         THEN <<Head(sorted)>> \o InsertBeforeTies(Tail(sorted), r)
         ELSE <<r>> \o sorted

RECURSIVE SortTiesReversed(_)
SortTiesReversed(matched) ==
    IF matched = <<>> THEN <<>>
    ELSE InsertBeforeTies(SortTiesReversed(SubSeq(matched, 1, Len(matched) - 1)),
                          matched[Len(matched)])

\* matched_rules.sort(key=lambda x: x['threat_score'].score, reverse=True)
SortResults(matched) == SortByScore(matched)

\* A counter that is set to one instead of being incremented.
BumpStatSetsOne(stats, id) == (id :> 1) @@ stats

\* self.rule_stats[rule_id] += 1 on a defaultdict(int)
BumpStat(stats, id) ==
    IF id \in DOMAIN stats THEN [stats EXCEPT ![id] = @ + 1] ELSE stats @@ (id :> 1)

\* The threat score of a candidate: the candidate itself is handed over as
\* the match details.
ScoreOfMatch(match) == CalculateThreatScore(match.rule, match)

MatchResult(match, entry) ==
    [rule |-> match.rule,
     log_entry |-> entry,
     threat_score |-> ScoreOfMatch(match),
     match_details |-> DictGet(match, "details", <<>>),
     rule_id |-> DictGet(match, "rule_id", Absent)]

\* The loop over quick_matches, from candidate i on; acc is
\* [exc, matched, stats].
RECURSIVE AnalyseMatches(_, _, _, _)
AnalyseMatches(matches, entry, i, acc) ==
    IF i > Len(matches) THEN acc
    ELSE LET c == ContextAnalysis(matches[i], entry)
         IN IF c = "raise" THEN [acc EXCEPT !.exc = TRUE]
            ELSE IF c = "keep"
            THEN AnalyseMatches(matches, entry, i + 1,
                     [acc EXCEPT !.matched = Append(@, MatchResult(matches[i], entry)),
                                 !.stats = BumpStat(@, DictGet(matches[i], "rule_id", "unknown"))])
            ELSE AnalyseMatches(matches, entry, i + 1, acc)

\* A match_log that reports a rule once only: a candidate whose rule_id has
\* been counted before is left out.
MatchLogOncePerRule(cr, stats, entry) ==
    IF entry = <<>> THEN [exc |-> FALSE, results |-> <<>>, stats |-> stats]
    ELSE LET Analysed(a) ==
                 IF a.exc THEN [exc |-> TRUE, results |-> <<>>, stats |-> a.stats]
                 ELSE [exc |-> FALSE, results |-> SortResults(a.matched), stats |-> a.stats]
             Matched(q) ==
                 IF q.exc THEN [exc |-> TRUE, results |-> <<>>, stats |-> stats]
                 ELSE Analysed(AnalyseMatches(
                          SelectSeq(q.matches, LAMBDA m : m.rule_id \notin DOMAIN stats),
                          entry, 1, [exc |-> FALSE, matched |-> <<>>, stats |-> stats]))
         IN Matched(QuickMatch(cr, entry))

\* [exc, results, stats]: exc when an exception escapes match_log, results
\* the list returned otherwise, stats the rule_stats the call leaves.
MatchLog(cr, stats, entry) ==
    IF entry = <<>> THEN [exc |-> FALSE, results |-> <<>>, stats |-> stats]
    ELSE LET Analysed(a) ==
                 IF a.exc THEN [exc |-> TRUE, results |-> <<>>, stats |-> a.stats]
                 ELSE [exc |-> FALSE, results |-> SortResults(a.matched), stats |-> a.stats]
             Matched(q) ==
                 IF q.exc THEN [exc |-> TRUE, results |-> <<>>, stats |-> stats]
                 ELSE Analysed(AnalyseMatches(q.matches, entry, 1,
                                   [exc |-> FALSE, matched |-> <<>>, stats |-> stats]))
         IN Matched(QuickMatch(cr, entry))

\* The MatchResults a call returned, added to those returned before.
RECURSIVE CountReturned(_, _)
CountReturned(seen, results) ==
    IF results = <<>> THEN seen
    ELSE CountReturned(
             [counts |-> IF Head(results).rule_id \in DOMAIN seen.counts
                         THEN [seen.counts EXCEPT ![Head(results).rule_id] = @ + 1]
                         ELSE seen.counts @@ (Head(results).rule_id :> 1),
              total |-> seen.total + 1],
             Tail(results))

---------------------------------------------------------------------------
(* RuleEngine.get_rule_statistics.                                         *)

\* sum(stats.values())
RECURSIVE SumCounts(_, _)
SumCounts(stats, ids) ==
    IF ids = {} THEN 0
    ELSE LET id == CHOOSE x \in ids : TRUE
         IN stats[id] + SumCounts(stats, ids \ {id})

\* get_rule_statistics()['total_rules']
TotalRules(rs) == Len(rs)

\* get_rule_statistics()['total_matches']
TotalMatches(stats) == SumCounts(stats, DOMAIN stats)

\* An _extract_attack_context that fills the header fields into the record
\* itself.
MatchLogLeavesHeadersInRecord(rs, cr, entry) ==
    [rules |-> rs, compiled_rules |-> cr,
     log_entry |-> DictUpdate(entry, AddHeaderFields(entry, InitialHeaders(entry),
                                                     HeaderFields).headers)]

\* The objects match_log works on as the call leaves them.  The record is
\* read by _quick_match, _extract_attack_context (which fills dicts of its
\* own: context, headers) and _context_analysis and is stored in each result;
\* the rule list and the compiled table are read only.  No statement of these
\* methods assigns to any of the three.
MatchLogLeaves(rs, cr, entry) == [rules |-> rs, compiled_rules |-> cr, log_entry |-> entry]

\* get_rule_statistics(), without the ten most triggered rules.
GetRuleStatistics(rs, stats) ==
    [total_rules |-> TotalRules(rs), total_matches |-> TotalMatches(stats),
     rule_match_counts |-> stats]

---------------------------------------------------------------------------
(* RuleEngine.match_log_with_ai.  The threat levels of the analyzer are    *)
(* spelled yanzhong (severe), gao (high), zhong (medium) and di (low).     *)

AiLevels == {"yanzhong", "gao", "zhong", "di"}

\* _parse_threat_analysis: confidence_map, in hundredths.
confidence_map(level) ==
    CASE level = "yanzhong" -> 90 [] level = "gao" -> 80 [] level = "zhong" -> 60
      [] level = "di" -> 40 [] OTHER -> 50

\* AIThreatAnalyzer._calculate_threat_score: base_scores.
base_scores(level) ==
    CASE level = "yanzhong" -> 900 [] level = "gao" -> 750 [] level = "zhong" -> 550
      [] level = "di" -> 350 [] OTHER -> 550

\* AIThreatAnalyzer._calculate_threat_score
AiThreatScore(level) ==
    Max(100, Min(1000, (base_scores(level) * confidence_map(level)
                        + (100 - confidence_map(level)) * 500) \div 100))

\* analyze_log_entry: None, or an AIDetectionResult.  A reply that could
\* not be parsed is the default analysis: zhong with score 5.0.
AiAnswers ==
    { [none |-> TRUE, level |-> "zhong", score |-> 500] }
    \cup { [none |-> FALSE, level |-> l, score |-> AiThreatScore(l)] : l \in AiLevels }
    \cup { [none |-> FALSE, level |-> "zhong", score |-> 500] }

IsMalicious(ai) == ai.level \in {"gao", "yanzhong"}

AiAnalysis(ai) == [is_malicious |-> IsMalicious(ai), ai_threat_level |-> ai.level]

\* The body of the loop over traditional_matches: match.copy() copies the
\* dict only, so the ThreatScore written here is the one of the result
\* match_log returned.
EnhanceMatch(match, ai) ==
    LET ts == match.threat_score
        blended_score == (ts.score * 60 + ai.score * 40) \div 100
        severity == IF ai.level = "yanzhong" /\ ts.severity # "critical" THEN "critical"
                    ELSE IF ai.level = "gao" /\ ts.severity = "low" THEN "high"
                    ELSE ts.severity
    IN [ai_analysis |-> AiAnalysis(ai)]
       @@ (IF IsMalicious(ai)
           THEN [match EXCEPT !.threat_score.score = blended_score,
                              !.threat_score.severity = severity]
           ELSE match)

\* The match made up for a record no rule matched.
AiMatch(entry, ai) ==
    [rule |-> [name |-> "AI threat detection", category |-> "ai_detection",
               severity |-> ai.level, source |-> "ai_analysis"],
     log_entry |-> entry,
     threat_score |-> [score |-> ai.score, severity |-> ai.level,
                       confidence |-> confidence_map(ai.level),
                       attack_vectors |-> {}, risk_factors |-> {}],
     match_details |-> [matched_fields |-> << <<"ai_analysis">> >>, ai_detected |-> TRUE],
     rule_id |-> "ai_detection",
     ai_analysis |-> AiAnalysis(ai)]

\* match_log_with_ai(log_entry): [exc, traditional, results, stats].
\* traditional is what match_log returned.  match['rule']['name'] raises
\* KeyError for a rule without a name, which the handler answers with the
\* traditional matches.
MatchLogWithAi(cr, stats, entry, enabled, ai) ==
    LET WithAi(r) ==
            [exc |-> FALSE, traditional |-> r.results, stats |-> r.stats,
             results |->
                 IF ~enabled THEN r.results
                 ELSE IF \E i \in 1..Len(r.results) : r.results[i].rule.name = Absent
                 THEN r.results
                 ELSE IF ai.none THEN r.results
                 ELSE [i \in 1..Len(r.results) |-> EnhanceMatch(r.results[i], ai)]
                      \o (IF IsMalicious(ai) /\ r.results = <<>>
                          THEN <<AiMatch(entry, ai)>> ELSE <<>>)]
        Called(r) ==
            IF r.exc THEN [exc |-> TRUE, traditional |-> <<>>, results |-> <<>>,
                           stats |-> r.stats]
            ELSE WithAi(r)
    IN Called(MatchLog(cr, stats, entry))

---------------------------------------------------------------------------
(* Inputs: rule files and log entries.                                     *)

K(name) == StrV(<<name>>)

DictPattern(items) == [kind |-> "dict", items |-> items, s |-> <<>>]
StrPattern(s) == [kind |-> "str", items |-> <<>>, s |-> s]
NoPattern == [kind |-> "absent", items |-> <<>>, s |-> <<>>]

MkRule(name, severity, category, pattern, attack_patterns, threat_level, response_codes) ==
    [name |-> name, severity |-> severity, category |-> category, pattern |-> pattern,
     attack_patterns |-> attack_patterns, threat_level |-> threat_level,
     response_codes |-> response_codes, source_file |-> Absent]

NoRule == MkRule(Absent, Absent, Absent, NoPattern, <<>>, Absent, <<>>)

UnionSelect == <<"union select">>
ScriptTag == <<"<", "script", ">">>

RuleFile(fname, rule) == [fname |-> fname, kind |-> "dict", rule |-> rule]

RuleFiles ==
    { RuleFile("sqli.yaml",
          MkRule("sqli", "high", Absent,
                 DictPattern(<< <<<<"request_path">>, UnionSelect>> >>), <<>>, Absent, <<>>)),
      RuleFile("inj.yaml",
          MkRule("inj", "medium", "injection",
                 DictPattern(<< <<<<"request_path">>, UnionSelect>> >>), <<>>, Absent, <<>>)),
      RuleFile("auto.yaml",
          MkRule("auto", "high", "automated_response",
                 DictPattern(<< <<<<"request_path">>, UnionSelect>>,
                                <<<<"user_agent">>, <<"sqlmap">>>> >>), <<>>, Absent, <<>>)),
      RuleFile("scan.yaml",
          MkRule("scan", "low", "automated_response",
                 DictPattern(<< <<<<"user_agent">>, <<"sqlmap">>>> >>), <<>>, Absent, <<>>)),
      RuleFile("xss.yaml",
          MkRule("xss", "medium", "xss",
                 DictPattern(<< <<<<"request_path", "_params">>, ScriptTag>> >>),
                 << <<"reflected ", "XSS">> >>, "high", <<200>>)),
      RuleFile("log4j.yml",
          MkRule("log4j", "critical", "log4j_vulnerability",
                 DictPattern(<< <<<<"request_path">>, UnionSelect>>,
                                <<<<"request_body">>, UnionSelect>>,
                                <<<<"user_agent">>, <<"sqlmap">>>>,
                                <<<<"status_code">>, <<"200">>>>,
                                <<<<"referer">>, <<"evil">>>> >>),
                 << <<"remote_code_execution">>, <<"SSRF", " pivot">> >>, "critical",
                 <<404, 200>>)),
      RuleFile("legacy.yaml",
          MkRule("legacy", Absent, "", StrPattern(UnionSelect), <<>>, Absent, <<>>)),
      RuleFile("badre.yaml",
          MkRule("badre", "high", "rce",
                 DictPattern(<< <<<<"request_path">>, <<"(", "union select">>>> >>),
                 <<>>, Absent, <<>>)),
      RuleFile("noname.yaml",
          MkRule(Absent, "high", "rce",
                 DictPattern(<< <<<<"request_path">>, UnionSelect>> >>), <<>>, Absent, <<>>)),
      [fname |-> "broken.yaml", kind |-> "yaml_error", rule |-> NoRule],
      [fname |-> "list.yaml", kind |-> "list", rule |-> NoRule],
      [fname |-> "gbk.yaml", kind |-> "undecodable", rule |-> NoRule] }

\* The directories: sequences of at most MaxFiles distinct files.
RECURSIVE DirsOfLen(_)
DirsOfLen(n) ==
    IF n = 0 THEN {<<>>}
    ELSE { Append(d, f) : d \in DirsOfLen(n - 1),
                          f \in RuleFiles } 

IsDir(d) == \A i, j \in 1..Len(d) : i # j => d[i].fname # d[j].fname

Dirs == { d \in UNION { DirsOfLen(n) : n \in 0..MaxFiles } : IsDir(d) }

AttackPath == <<"/x?id", "=", "1 ", "UNION SELECT", " 1">>

LogEntries ==
    { <<>>,
      << <<K("request_path"), StrV(AttackPath)>> >>,
      << <<K("request_path"), StrV(AttackPath)>>,
         <<K("user_agent"), StrV(<<"Googlebot", "/2.1">>)>> >>,
      << <<K("request_path"), StrV(AttackPath)>>,
         <<K("user_agent"), StrV(<<"Mozilla/5.0", " ", "BINGBOT">>)>> >>,
      << <<K("request_path"), StrV(AttackPath)>>,
         <<K("user_agent"), StrV(<<"sqlmap">>)>>,
         <<K("status_code"), IntV(200)>> >>,
      << <<K("request_path"), StrV(AttackPath)>>, <<K("user_agent"), NoneV>> >>,
      << <<K("request_path"), StrV(<<"/index">>)>>, <<K("user_agent"), IntV(5)>> >>,
      << <<K("request_path"), StrV(AttackPath)>>,
         <<K("request_headers"), DictV(<< <<IntV(1), StrV(<<"x">>)>> >>)>> >>,
      << <<K("request_path"), StrV(<<"/index">>)>>,
         <<K("request_headers"),
           StrV(<<"User_Agent", ":", " ", "SQLMap", "\n", "Referer", ":", "evil">>)>> >>,
      << <<K("src_ip"), StrV(<<"10.0.0.1">>)>>,
         <<K("request"), DictV(<< <<K("request_path"), StrV(<<"%3C", "script", "%3E">>)>> >>)>> >>,
      << <<K("request_path"), StrV(<<"PHNjcmlwdD4=">>)>>,
         <<K("request_body"), DictV(<< <<K("q"), StrV(UnionSelect)>> >>)>> >> }

---------------------------------------------------------------------------
(* LogParser.  A line is a text whose tokens are words, blanks and         *)
(* punctuation: an IPv4 address is seven tokens (four numbers and three    *)
(* dots), a quoted string lies between two quote tokens, an embedded JSON  *)
(* object between '{' and '}'.                                             *)

MAX_LINE_LENGTH == 10000
MAX_FIELD_VALUE_LENGTH == 1000

\* The digits of a numeric token as a number, -1 for any other token.
NumVal(tok) ==
    CASE tok = "0" -> 0        [] tok = "1" -> 1       [] tok = "2" -> 2
      [] tok = "3" -> 3        [] tok = "4" -> 4       [] tok = "10" -> 10
      [] tok = "192" -> 192    [] tok = "168" -> 168   [] tok = "100" -> 100
      [] tok = "200" -> 200    [] tok = "255" -> 255   [] tok = "256" -> 256
      [] tok = "999" -> 999    [] tok = "404" -> 404   [] tok = "2024" -> 2024
      [] tok = "1234" -> 1234 [] tok = "003" -> 3
      [] OTHER -> -1

IsNum(tok) == NumVal(tok) >= 0

\* Number of digits of a numeric token.
Digits(tok) ==
    IF tok = "003" THEN 3 ELSE IF NumVal(tok) < 10 THEN 1 ELSE IF NumVal(tok) < 100 THEN 2
    ELSE IF NumVal(tok) < 1000 THEN 3 ELSE 4

\* A numeric token of four digits: its first three digits and the fourth.
First3(tok) == CASE tok = "2024" -> "202" [] tok = "1234" -> "123" [] OTHER -> tok
Rest3(tok) == CASE tok = "2024" -> "4" [] tok = "1234" -> "4" [] OTHER -> ""

\* num '.' num '.' num '.' num at position p.
IpAt(s, p) ==
    /\ p + 6 <= Len(s)
    /\ \A k \in {0, 2, 4, 6} : IsNum(s[p + k])
    /\ \A k \in {1, 3, 5} : s[p + k] = "."

\* r'\d{4}-\d{2}-\d{2}|\d{2}/\w{3}/\d{4}' at position p: a year of four
\* digits followed by the token of month and day.
DateAt(s, p) == p + 1 <= Len(s) /\ IsNum(s[p]) /\ Digits(s[p]) = 4 /\ s[p + 1] = "-01-01"

\* DANGEROUS_PATTERNS, compiled with re.IGNORECASE.
DangerousToks == {"javascript:", "onerror=", "expression("}

HasScriptBlock(s) ==
    \E i, j \in 1..Len(s) :
        /\ i + 2 < j
        /\ s[i] = "<" /\ s[i + 1] = "script" /\ s[i + 2] = ">"
        /\ s[j] = "</script>"

Dangerous(s) ==
    \/ HasScriptBlock(LowerText(s))
    \/ \E i \in 1..Len(s) : Lower(s[i]) \in DangerousToks

\* validate_log_input: [ok, blocked] - whether the line is accepted and by
\* how much blocked_count grows.
ValidateLogInput(line) ==
    IF line.t # "str" \/ line.s = <<>> THEN [ok |-> FALSE, blocked |-> 0]
    ELSE IF TextLen(line.s) > MAX_LINE_LENGTH THEN [ok |-> FALSE, blocked |-> 1]
    ELSE IF Dangerous(line.s) THEN [ok |-> FALSE, blocked |-> 1]
    ELSE IF ~(\E p \in 1..Len(line.s) : IpAt(line.s, p))
            /\ ~(\E p \in 1..Len(line.s) : DateAt(line.s, p))
         THEN [ok |-> FALSE, blocked |-> 1]
    ELSE [ok |-> TRUE, blocked |-> 0]

\* value[:n] on a text.
CutTok(tok, n) ==
    IF tok = "x*1500" /\ n = 1000 THEN "x*1000"
    ELSE IF tok = "<*1500" /\ n = 1000 THEN "<*1000"
    ELSE "x*cut"

RECURSIVE TakeChars(_, _)
TakeChars(s, n) ==
    IF s = <<>> \/ n = 0 THEN <<>>
    ELSE IF TokLen(Head(s)) <= n
         THEN <<Head(s)>> \o TakeChars(Tail(s), n - TokLen(Head(s)))
         ELSE <<CutTok(Head(s), n)>>

TruncationMarker == "...[truncated]"

\* re.sub(r'<[^>]+>', '', value)
RECURSIVE RemoveTags(_)
RemoveTags(s) ==
    IF s = <<>> THEN <<>>
    ELSE LET close == IndexOf(s, ">", 1)
         IN IF Head(s) = "<" /\ close > 2
            THEN RemoveTags(SubSeq(s, close + 1, Len(s)))
            ELSE <<Head(s)>> \o RemoveTags(Tail(s))

EscapeAngles(s) ==
    [i \in 1..Len(s) |-> IF s[i] = "<" THEN "&lt;" ELSE IF s[i] = ">" THEN "&gt;"
                         ELSE IF s[i] = "<*1000" THEN "&lt;*1000" ELSE s[i]]

\* sanitize_field_value
SanitizeFieldValue(value) ==
    IF value = <<>> THEN <<>>
    ELSE LET cut == IF TextLen(value) > MAX_FIELD_VALUE_LENGTH
                    THEN TakeChars(value, MAX_FIELD_VALUE_LENGTH) \o <<TruncationMarker>>
                    ELSE value
         IN Strip(EscapeAngles(RemoveTags(cut)))

---------------------------------------------------------------------------
(* Field patterns.  A configured field pattern is one of                   *)
(*   ip       (\d+\.\d+\.\d+\.\d+)                                         *)
(*   quoted   a double quote, a group of non-quote characters, a quote     *)
(*   num3     (\d{3})                                                      *)
(*   json     (\{.*\})                                                     *)
(*   verb     (?:GET|POST)             a parenthesis, no capturing group   *)
(*   octets   (\d+)\.(\d+)\.\d+\.\d+   two capturing groups                *)
(*   backref  \1                       the text of group 1 once more       *)
(* MatchAt is the match of the pattern starting at token p: ok, the texts  *)
(* of its groups, the text it matched and the text left after the match.   *)

NoMatch == [ok |-> FALSE, caps |-> <<>>, text |-> <<>>, rest |-> <<>>]

\* if '(' not in pattern: pattern = f'({pattern})'
Wrapped(kind) == kind = "backref"

\* re.compile of the pattern on its own, wrapped where it has no
\* parenthesis: a group cannot refer to itself.
CompilesAlone(kind) == kind # "backref"

\* Position of the last token tok in s, 0 when there is none.
RECURSIVE LastIndexOf(_, _, _)
LastIndexOf(s, tok, i) ==
    IF i < 1 THEN 0 ELSE IF s[i] = tok THEN i ELSE LastIndexOf(s, tok, i - 1)

MatchAt(kind, s, p) ==
    CASE kind = "ip" ->
           IF IpAt(s, p)
           THEN [ok |-> TRUE, caps |-> <<SubSeq(s, p, p + 6)>>, text |-> SubSeq(s, p, p + 6),
                 rest |-> SubSeq(s, p + 7, Len(s))]
           ELSE NoMatch
      [] kind = "quoted" ->
           LET q == IndexOf(s, "\"", p + 1)
           IN IF p <= Len(s) /\ s[p] = "\"" /\ q > 0
              THEN [ok |-> TRUE, caps |-> <<SubSeq(s, p + 1, q - 1)>>,
                    text |-> SubSeq(s, p, q), rest |-> SubSeq(s, q + 1, Len(s))]
              ELSE NoMatch
      [] kind = "num3" ->
           IF p <= Len(s) /\ IsNum(s[p]) /\ Digits(s[p]) >= 3
           THEN [ok |-> TRUE, caps |-> << <<First3(s[p])>> >>, text |-> <<First3(s[p])>>,
                 rest |-> (IF Digits(s[p]) > 3 THEN <<Rest3(s[p])>> ELSE <<>>)
                          \o SubSeq(s, p + 1, Len(s))]
           ELSE NoMatch
      [] kind = "json" ->
           LET q == LastIndexOf(s, "}", Len(s))
           IN IF p <= Len(s) /\ s[p] = "{" /\ q > p
              THEN [ok |-> TRUE, caps |-> <<SubSeq(s, p, q)>>, text |-> SubSeq(s, p, q),
                    rest |-> SubSeq(s, q + 1, Len(s))]
              ELSE NoMatch
      [] kind = "verb" ->
           IF p <= Len(s) /\ s[p] \in {"GET", "POST"}
           THEN [ok |-> TRUE, caps |-> <<>>, text |-> <<s[p]>>,
                 rest |-> SubSeq(s, p + 1, Len(s))]
           ELSE NoMatch
      [] kind = "octets" ->
           IF IpAt(s, p)
           THEN [ok |-> TRUE, caps |-> << <<s[p]>>, <<s[p + 2]>> >>,
                 text |-> SubSeq(s, p, p + 6), rest |-> SubSeq(s, p + 7, Len(s))]
           ELSE NoMatch
      [] OTHER -> NoMatch

\* (\1) inside the composite pattern: the text of group 1 at position p.
BackrefAt(groups, s, p) ==
    IF groups # <<>> /\ p + Len(groups[1]) - 1 <= Len(s)
       /\ SubSeq(s, p, p + Len(groups[1]) - 1) = groups[1]
    THEN [ok |-> TRUE, caps |-> <<groups[1]>>, text |-> groups[1],
          rest |-> SubSeq(s, p + Len(groups[1]), Len(s))]
    ELSE NoMatch

\* compiled_pattern.search(text): the leftmost match.
RECURSIVE SearchFrom(_, _, _)
SearchFrom(kind, s, p) ==
    IF p > Len(s) THEN NoMatch
    ELSE IF MatchAt(kind, s, p).ok THEN MatchAt(kind, s, p)
    ELSE SearchFrom(kind, s, p + 1)

\* self.regex.match(line) for the composite pattern
\* '^' + '\s*'.join(groups) + '\s*$': [ok, groups, own].  groups is
\* match.groups(), the groups of all the patterns in order; own[i] is what
\* pattern i itself captured: its first group, or the text it matched when
\* it has no group.
RECURSIVE CompositeMatch(_, _, _, _)
CompositeMatch(fields, s, i, acc) ==
    IF i > Len(fields)
    THEN [ok |-> LStrip(s) = <<>>, groups |-> acc.groups, own |-> acc.own]
    ELSE LET text == IF i = 1 THEN s ELSE LStrip(s)
             m == IF Wrapped(fields[i].regex) THEN BackrefAt(acc.groups, text, 1)
                  ELSE MatchAt(fields[i].regex, text, 1)
         IN IF m.ok
            THEN CompositeMatch(fields, m.rest, i + 1,
                     [groups |-> acc.groups \o m.caps,
                      own |-> Append(acc.own, IF m.caps = <<>> THEN m.text ELSE m.caps[1])])
            ELSE [ok |-> FALSE, groups |-> <<>>, own |-> <<>>]

NoGroups == [groups |-> <<>>, own |-> <<>>]

---------------------------------------------------------------------------
(* HTTP fields and embedded structures.                                    *)

\* str.split(): the runs of tokens between blanks.
RECURSIVE SplitWs(_)
SplitWs(s) ==
    LET t == LStrip(s)
        i == IndexOf(t, " ", 1)
    IN IF t = <<>> THEN <<>>
       ELSE IF i = 0 THEN <<t>>
       ELSE <<SubSeq(t, 1, i - 1)>> \o SplitWs(SubSeq(t, i + 1, Len(t)))

\* parse_qs(query) as a dict name -> list of values.
RECURSIVE QsDict(_, _)
QsDict(d, pairs) ==
    IF pairs = <<>> THEN d
    ELSE LET key == StrV(pairs[1][1])
             old == IF HasKey(d, key) THEN Lookup(d, key).l ELSE <<>>
         IN QsDict(DictSet(d, key, ListV(Append(old, StrV(pairs[1][2])))), Tail(pairs))

\* _parse_url_params: urlparse(url) splits the path from the query at '?'.
ParseUrlParams(result) ==
    LET url == IF HasKey(result, K("url")) THEN Lookup(result, K("url")).s ELSE <<>>
        q == IndexOf(url, "?", 1)
        path == IF q = 0 THEN url ELSE SubSeq(url, 1, q - 1)
        query == IF q = 0 THEN <<>> ELSE SubSeq(url, q + 1, Len(url))
    IN IF url = <<>> THEN result
       ELSE DictSet(DictSet(result, K("query_params"),
                            DictV(QsDict(<<>>, QsPairs(Split(query, "&"))))),
                    K("path"), StrV(path))

\* _extract_http_info.  fault: an exception raised inside the try block,
\* which the handler there logs.
ExtractHttpInfo(result, fault) ==
    LET present(f) == HasKey(result, K(f)) /\ Truthy(Lookup(result, K(f)))
        parts == SplitWs(Lookup(result, K("request_line")).s)
        r1 == IF Len(parts) >= 3
              THEN DictSet(DictSet(DictSet(result, K("method"), StrV(parts[1])),
                                   K("url"), StrV(parts[2])),
                           K("protocol"), StrV(parts[3]))
              ELSE IF Len(parts) >= 2
              THEN DictSet(DictSet(DictSet(result, K("method"), StrV(parts[1])),
                                   K("url"), StrV(parts[2])),
                           K("protocol"), StrV(<<"HTTP/1.1">>))
              ELSE result
        r2 == DictSet(result, K("method"), Lookup(result, K("request_method")))
        withUrl(r) == IF HasKey(r, K("url")) THEN ParseUrlParams(r) ELSE r
    IN IF fault THEN result
       ELSE IF present("request_line") THEN withUrl(r1)
       ELSE IF present("request_method") THEN withUrl(r2)
       ELSE IF present("request") THEN withUrl(result)
       ELSE result

\* json.loads(codecs.decode(text, 'unicode_escape')): kind is "dict",
\* "list" (valid JSON that is no object) or "error" (JSONDecodeError).
JsonLoads(text) ==
    CASE text = <<"{", "\"", "user", "\"", ":", "\"", "bob", "\"", "}">> ->
           [kind |-> "dict", items |-> << <<K("user"), StrV(<<"bob">>)>> >>]
      [] text = <<"{", "\"", "tag", "\"", ":", "\"", "\\u", "003", "c", "b", "\\u", "003", "e", "\"", "}">> ->
           [kind |-> "dict", items |-> << <<K("tag"), StrV(<<"<", "b", ">">>)>> >>]
      [] text = <<"{", "\"", "src_ip", "\"", ":", "\"", "6.6.6.6", "\"", ",",
                  "\"", "url", "\"", ":", "\"", "/evil", "\"", ",",
                  "\"", "n", "\"", ":", "1", "}">> ->
           [kind |-> "dict", items |-> << <<K("src_ip"), StrV(<<"6.6.6.6">>)>>,
                                          <<K("url"), StrV(<<"/evil">>)>>,
                                          <<K("n"), IntV(1)>> >>]
      [] text = <<"{", "\"", "data", "\"", ":", "\"", "x", "\"", ",",
                  "\"", "payload", "\"", ":", "\"", "{", "}", "\"", "}">> ->
           [kind |-> "dict", items |-> << <<K("data"), StrV(<<"x">>)>>,
                                          <<K("payload"), StrV(<<"{", "}">>)>> >>]
      [] text = <<"{", "}">> -> [kind |-> "dict", items |-> <<>>]
      [] text = <<"[", "]">> -> [kind |-> "list", items |-> <<>>]
      [] OTHER -> [kind |-> "error", items |-> <<>>]

\* A merge that lets the decoded keys overwrite the fields of the record.
RECURSIVE MergeJsonOverwriting(_, _)
MergeJsonOverwriting(result, items) ==
    IF items = <<>> THEN result
    ELSE MergeJsonOverwriting(DictSet(result, items[1][1], StrV(PyStr(items[1][2]))),
                              Tail(items))

\* for key, value in json_data.items(): if key not in result: ...
RECURSIVE MergeJson(_, _)
MergeJson(result, items) ==
    IF items = <<>> THEN result
    ELSE MergeJson(IF HasKey(result, items[1][1]) THEN result
                   ELSE Append(result, <<items[1][1], StrV(PyStr(items[1][2]))>>),
                   Tail(items))

DictDel(d, k) == SelectSeq(d, LAMBDA item : item[1] # k)

json_fields == <<"json_data", "data", "payload">>

\* _parse_json_fields from field i on.  A field that does not decode is
\* left as it is and the next one is tried.
RECURSIVE ParseJsonFields(_, _, _)
ParseJsonFields(result, i, fault) ==
    IF i > Len(json_fields) THEN result
    ELSE LET f == K(json_fields[i])
             j == JsonLoads(Lookup(result, f).s)
         IN IF ~(HasKey(result, f) /\ Truthy(Lookup(result, f)))
            THEN ParseJsonFields(result, i + 1, fault)
            ELSE IF fault \/ Lookup(result, f).t # "str" \/ j.kind # "dict"
            THEN ParseJsonFields(result, i + 1, fault)
            ELSE DictDel(MergeJson(result, j.items), f)

---------------------------------------------------------------------------
(* LogParser.parse_log_line.                                               *)

\* _validate_parsed_result
ValidateParsedResult(result) ==
    /\ result # <<>>
    /\ HasKey(result, K("src_ip"))
    /\ LET ip == Lookup(result, K("src_ip"))
       IN /\ Truthy(ip)
          /\ ip.t = "str"
          /\ Len(ip.s) = 7
          /\ IpAt(ip.s, 1)
          /\ \A k \in {1, 3, 5, 7} : Digits(ip.s[k]) <= 3
          /\ \A k \in {1, 3, 5, 7} : NumVal(ip.s[k]) <= 255

\* The loop of _partial_parse from field i on.  A field whose pattern does
\* not compile on its own, or has no group for match.group(1), raises inside
\* the try block, which sets the field to ''.  fault: an exception raised
\* inside the try block of the first field.
RECURSIVE PartialFields(_, _, _, _, _)
PartialFields(fields, remaining, i, result, fault) ==
    IF i > Len(fields) THEN result
    ELSE LET m == IF CompilesAlone(fields[i].regex)
                  THEN SearchFrom(fields[i].regex, remaining, 1) ELSE NoMatch
         IN IF (fault /\ i = 1) \/ ~m.ok \/ m.caps = <<>>
            THEN PartialFields(fields, remaining, i + 1,
                               DictSet(result, K(fields[i].name), StrV(<<>>)), fault)
            ELSE PartialFields(fields, m.rest, i + 1,
                               DictSet(result, K(fields[i].name),
                                       StrV(SanitizeFieldValue(m.caps[1]))), fault)

\* The cache and its counters after the loop of _partial_parse: a pattern
\* in the cache is a hit; any other is compiled, stored and a miss, unless
\* it does not compile, which leaves the try block before the counter.
\* lookups counts the patterns looked up.
RECURSIVE PartialLookups(_, _, _)
PartialLookups(fields, i, c) ==
    IF i > Len(fields) THEN c
    ELSE PartialLookups(fields, i + 1,
             IF fields[i].regex \in c.cache
             THEN [c EXCEPT !.hits = @ + 1, !.lookups = @ + 1]
             ELSE IF CompilesAlone(fields[i].regex)
             THEN [c EXCEPT !.cache = @ \cup {fields[i].regex}, !.misses = @ + 1,
                            !.lookups = @ + 1]
             ELSE [c EXCEPT !.lookups = @ + 1])

\* any(result.values())
AnyValue(result) == \E i \in 1..Len(result) : Truthy(result[i][2])

\* _partial_parse: the record, or <<>> for None.
PartialParse(fields, line, fault) ==
    LET result == PartialFields(fields, line, 1, <<>>, fault)
    IN IF AnyValue(result) THEN result ELSE <<>>

\* The fields of a full match, each group sanitized.
RECURSIVE GroupFields(_, _, _, _)
GroupFields(fields, groups, i, result) ==
    IF i > Len(fields) THEN result
    ELSE GroupFields(fields, groups, i + 1,
                     IF i <= Len(groups)
                     THEN DictSet(result, K(fields[i].name),
                                  StrV(SanitizeFieldValue(groups[i])))
                     ELSE result)

Outcome(exc, record, parsed, failed, blocked, path) ==
    [exc |-> exc, ret |-> IF record = <<>> THEN "none" ELSE "record", record |-> record,
     parsed |-> parsed, failed |-> failed, blocked |-> blocked, path |-> path]

\* Handlers that catch LogValidationError only.
HandleValidationErrorOnly(class, blocked) ==
    IF class = "LogValidationError"
    THEN Outcome(FALSE, <<>>, 0, 1, blocked, "handler")
    ELSE Outcome(TRUE, <<>>, 0, 0, blocked, "escaped")

\* The handlers of parse_log_line: except LogValidationError and
\* except Exception both count a failure and return None.
HandleException(class, blocked) ==
    IF class \in {"LogValidationError", "Exception"}
    THEN Outcome(FALSE, <<>>, 0, 1, blocked, "handler")
    ELSE Outcome(TRUE, <<>>, 0, 0, blocked, "escaped")

\* The internal failures a call may meet: an exception (of a subclass of
\* Exception, such as MemoryError) raised inside the named step.
Faults == {"none", "validate", "sanitize", "http", "json"}

\* parse_log_line(line): what the call returns and by how much it raises
\* each counter.
ParseLogLine(fields, line, fault) ==
    LET v == ValidateLogInput(line)
        m == CompositeMatch(fields, line.s, 1, NoGroups)
        partial == PartialParse(fields, line.s, fault = "sanitize")
        result == ParseJsonFields(
                      ExtractHttpInfo(GroupFields(fields, m.groups, 1, <<>>),
                                      fault = "http"),
                      1, fault = "json")
    IN IF fault = "validate" THEN HandleException("Exception", 0)
       ELSE IF ~v.ok THEN Outcome(FALSE, <<>>, 0, 0, v.blocked, "rejected")
       ELSE IF ~m.ok THEN Outcome(FALSE, partial, 0, 0, 0, "partial")
       ELSE IF fault = "sanitize" THEN HandleException("Exception", 0)
       ELSE IF ~ValidateParsedResult(result) THEN Outcome(FALSE, <<>>, 0, 1, 0, "invalid")
       ELSE Outcome(FALSE, result, 1, 0, 0, "full")

\* get_statistics()['total_processed']
TotalProcessed == parsed_count + failed_count + blocked_count

---------------------------------------------------------------------------
(* Inputs: field grammars and lines.                                       *)

Grammars ==
    { << [name |-> "src_ip", regex |-> "ip"],
         [name |-> "request_line", regex |-> "quoted"],
         [name |-> "status", regex |-> "num3"] >>,
      << [name |-> "src_ip", regex |-> "ip"],
         [name |-> "data", regex |-> "json"] >>,
      << [name |-> "src_ip", regex |-> "ip"],
         [name |-> "method", regex |-> "verb"],
         [name |-> "status", regex |-> "num3"] >>,
      << [name |-> "src_ip", regex |-> "octets"],
         [name |-> "status", regex |-> "num3"] >>,
      << [name |-> "src_ip", regex |-> "ip"],
         [name |-> "again", regex |-> "backref"] >> }

GoodIp == <<"192", ".", "168", ".", "1", ".", "100">>
BadIp == <<"999", ".", "1", ".", "1", ".", "1">>

Lines ==
    { NoneV,
      StrV(<<>>),
      StrV(<<"x*10001">>),
      StrV(GoodIp \o <<" ", "javascript:">>),
      StrV(<<"nothing", " ", "here">>),
      StrV(GoodIp \o <<" ", "\"", "GET", " ", "/a", "?", "id", "=", "1", " ", "HTTP/1.1", "\"",
                       " ", "200">>),
      StrV(BadIp \o <<" ", "\"", "GET", " ", "/a", "\"", " ", "404">>),
      StrV(<<"x", " ">> \o GoodIp \o <<" ", "\"", "GET", " ", "/a", "\"", " ", "200">>),
      StrV(<<"x", " ">> \o BadIp \o <<" ", "200">>),
      StrV(<<"foo", " ", "2024", "-01-01", " ", "bar">>),
      StrV(<<"10", ".", "0", ".", "0", ".", "1", " ",
             "{", "\"", "user", "\"", ":", "\"", "bob", "\"", "}">>),
      StrV(<<"256", ".", "0", ".", "0", ".", "1", " ", "{", "bad", "}">>),
      StrV(GoodIp \o <<" ", "GET", " ", "200">>),
      StrV(GoodIp \o <<" ", "200">>),
      StrV(GoodIp \o <<" ">> \o GoodIp),
      StrV(GoodIp \o <<" ", "\"", "<*1500", "\"", " ", "200">>),
      StrV(<<"10", ".", "0", ".", "0", ".", "1", " ",
             "{", "\"", "tag", "\"", ":", "\"", "\\u", "003", "c", "b", "\\u", "003", "e", "\"", "}">>) }

\* Records handed to _parse_json_fields on its own: the fields of a full
\* match, with or without what _extract_http_info adds, and any of the three
\* raw fields.
JsonTexts ==
    { <<>>,
      <<"{", "\"", "user", "\"", ":", "\"", "bob", "\"", "}">>,
      <<"{", "\"", "src_ip", "\"", ":", "\"", "6.6.6.6", "\"", ",",
        "\"", "url", "\"", ":", "\"", "/evil", "\"", ",", "\"", "n", "\"", ":", "1", "}">>,
      <<"{", "\"", "data", "\"", ":", "\"", "x", "\"", ",",
        "\"", "payload", "\"", ":", "\"", "{", "}", "\"", "}">>,
      <<"{", "}">>,
      <<"[", "]">>,
      <<"{", "bad", "}">> }

RawFields ==
    { [present |-> FALSE, text |-> <<>>] } \cup { [present |-> TRUE, text |-> t] : t \in JsonTexts }

JsonBases ==
    { << <<K("src_ip"), StrV(GoodIp)>> >>,
      << <<K("src_ip"), StrV(GoodIp)>>,
         <<K("request_line"), StrV(<<"GET", " ", "/a", "?", "id", "=", "1">>)>>,
         <<K("method"), StrV(<<"GET">>)>>,
         <<K("url"), StrV(<<"/a", "?", "id", "=", "1">>)>>,
         <<K("protocol"), StrV(<<"HTTP/1.1">>)>>,
         <<K("query_params"), DictV(<< <<K("id"), ListV(<<K("1")>>)>> >>)>>,
         <<K("path"), StrV(<<"/a">>)>> >> }

JsonRecords ==
    { base \o (IF a.present THEN << <<K("json_data"), StrV(a.text)>> >> ELSE <<>>)
           \o (IF b.present THEN << <<K("data"), StrV(b.text)>> >> ELSE <<>>)
           \o (IF c.present THEN << <<K("payload"), StrV(c.text)>> >> ELSE <<>>) :
        base \in JsonBases, a \in RawFields, b \in RawFields, c \in RawFields }

\* Rules and match details handed to _calculate_threat_score on its own.
OneField == DictPattern(<< <<<<"request_path">>, UnionSelect>> >>)
ThreeFields ==
    DictPattern(<< <<<<"request_path">>, UnionSelect>>,
                   <<<<"request_body">>, UnionSelect>>,
                   <<<<"user_agent">>, <<"sqlmap">>>> >>)
FiveFields ==
    DictPattern(<< <<<<"request_path">>, UnionSelect>>,
                   <<<<"request_body">>, UnionSelect>>,
                   <<<<"user_agent">>, <<"sqlmap">>>>,
                   <<<<"status_code">>, <<"200">>>>,
                   <<<<"referer">>, <<"evil">>>> >>)

ScoreRules ==
    { MkRule("r", severity, category, pattern, attack_patterns, threat_level, response_codes) :
        severity \in {"critical", "high", "medium", "low", Absent},
        category \in {Absent, "log4j_vulnerability", "ai_ml_anomaly"},
        pattern \in {OneField, ThreeFields, FiveFields, StrPattern(UnionSelect)},
        attack_patterns \in { <<>>, << <<"stored ", "XSS">> >>,
                              << <<"remote_code_execution">>, <<"SSRF", " pivot">> >> },
        threat_level \in {Absent, "critical", "high"},
        response_codes \in { <<>>, <<404>>, <<404, 200>> } }

ScoreDetails ==
    { [matched_fields |-> matched_fields, required_decode |-> required_decode] :
        matched_fields \in { <<>>, << <<"request_path">> >>, << <<"status_code">> >>,
                             << <<"request_body">>, <<"user_agent">> >>,
                             << <<"request_body">>, <<"params">>, <<"user_agent">>,
                                <<"request_path">>, <<"request_headers">>, <<"src_ip">> >> },
        required_decode \in BOOLEAN }

---------------------------------------------------------------------------
(* The state machine.                                                      *)

NoRet == [exc |-> FALSE, results |-> <<>>]
NoParse == [exc |-> FALSE, ret |-> "none", record |-> <<>>, path |-> "none"]
NoDetails == [matched_fields |-> <<>>, required_decode |-> FALSE]
\* The rule files and the records _quick_match is exercised on: patterns on
\* decoded fields (the _params suffix) next to patterns on plain fields.
DecodeFiles ==
    { RuleFile("xss.yaml",
          MkRule("xss", "medium", "xss",
                 DictPattern(<< <<<<"request_path", "_params">>, ScriptTag>> >>),
                 <<>>, Absent, <<>>)),
      RuleFile("enc.yaml",
          MkRule("enc", "medium", "xss",
                 DictPattern(<< <<<<"request_path", "_params">>, <<"%3C">>>> >>),
                 <<>>, Absent, <<>>)),
      RuleFile("trav.yaml",
          MkRule("trav", "high", "lfi",
                 DictPattern(<< <<<<"request_path", "_params">>, <<"../">>>> >>),
                 <<>>, Absent, <<>>)),
      RuleFile("lfi.yaml",
          MkRule("lfi", "high", "lfi",
                 DictPattern(<< <<<<"request_path", "_params">>, <<"etc/passwd">>>>,
                                <<<<"user_agent">>, <<"sqlmap">>>> >>),
                 <<>>, Absent, <<>>)),
      RuleFile("both.yaml",
          MkRule("both", "low", "xss",
                 DictPattern(<< <<<<"request_path">>, <<"script">>>>,
                                <<<<"request_path", "_params">>, <<"script">>>> >>),
                 <<>>, Absent, <<>>)),
      RuleFile("suffix.yaml",
          MkRule("suffix", "low", "xss",
                 DictPattern(<< <<<<"url", "_params", "_raw", "_params">>, <<"script">>>>,
                                <<<<"_params">>, <<"script">>>> >>),
                 <<>>, Absent, <<>>)),
      RuleFile("raw.yaml",
          MkRule("raw", "low", "xss",
                 DictPattern(<< <<<<"request_path">>, <<"%3C">>>> >>),
                 <<>>, Absent, <<>>)),
      RuleFile("scan.yaml",
          MkRule("scan", "low", "automated_response",
                 DictPattern(<< <<<<"user_agent">>, <<"sqlmap">>>> >>), <<>>, Absent, <<>>)) }

RECURSIVE DecodeDirsOfLen(_)
DecodeDirsOfLen(n) ==
    IF n = 0 THEN {<<>>}
    ELSE { Append(d, f) : d \in DecodeDirsOfLen(n - 1), f \in DecodeFiles }

DecodeDirs == { d \in UNION { DecodeDirsOfLen(n) : n \in 0..MaxFiles } : IsDir(d) }

DecodeEntries ==
    { <<>>,
      << <<K("request_path"), StrV(<<"%3C", "script", "%3E">>)>> >>,
      << <<K("request_path"), StrV(<<"%3C", "script", "%3E">>)>>,
         <<K("user_agent"), StrV(<<"sqlmap">>)>> >>,
      << <<K("request_path"), StrV(ScriptTag)>> >>,
      << <<K("request_path"), StrV(<<"PHNjcmlwdD4=">>)>> >>,
      << <<K("request_path"), StrV(<<"../", "../", "etc/passwd">>)>>,
         <<K("user_agent"), StrV(<<"x">>)>> >>,
      << <<K("request_path"), StrV(<<"/", "etc/passwd">>)>>,
         <<K("user_agent"), StrV(<<"sqlmap">>)>> >>,
      << <<K("request_path"), StrV(<<"/api">>)>>,
         <<K("user_agent"), StrV(<<"sqlmap">>)>> >>,
      << <<K("src_ip"), StrV(<<"10.0.0.1">>)>>,
         <<K("request"), DictV(<< <<K("request_path"), StrV(<<"%253C">>)>> >>)>> >> }

\* Texts given to _decode_and_normalize on its own.
NormTexts ==
    { <<>>, <<"x">>, <<"/api">>, <<"/etc/passwd">>, <<"../", "../", "etc/passwd">>,
      ScriptTag, <<"%3C", "script", "%3E">>, <<"&lt;", "script", "&gt;">>,
      <<"%253C">>, <<"%25253C">>, <<"%2541">>, <<"&amp;lt;">>, <<"%26lt%3B">>,
      <<"PHNjcmlwdD4=">>, <<"UEhOamNtbHdkRDQ9">>, <<"JTNDc2NyaXB0JTNF">>,
      <<"JmFtcDs=">>, <<"aWQ=">>, <<"abcd">>, <<"abcdefgh">>, <<"=">>, <<"ab=">>,
      <<"%3C">>, <<"&lt;">>, <<"%41">>, <<"&amp;">>, <<"sqlmap">> }

IdleThread == [pc |-> "idle", entry |-> <<>>, todo |-> <<>>, tmp |-> 0,
               matched |-> <<>>, results |-> <<>>]
NoQuick == [called |-> FALSE, entry |-> <<>>, exc |-> FALSE, matches |-> <<>>]
NoAi == [called |-> FALSE, traditional |-> <<>>, results |-> <<>>]
NoProbe == [op |-> "none", given |-> <<>>, left |-> <<>>, stats |-> <<>>]
NoScore == [score |-> 100, severity |-> "low", confidence |-> 10,
            attack_vectors |-> {}, risk_factors |-> {}]

Init ==
    /\ phase = "Uninitialized"
    /\ ctor_error = "none"
    /\ rules = <<>>
    /\ compiled_rules = <<>>
    /\ rule_stats = <<>>
    /\ calls = 0
    /\ last_entry = <<>>
    /\ last_ret = NoRet
    /\ log_fields = <<>>
    /\ parsed_count = 0
    /\ failed_count = 0
    /\ blocked_count = 0
    /\ parse_calls = 0
    /\ last_line = <<>>
    /\ last_parse = NoParse
    /\ rule_dir = <<>>
    /\ returned = [counts |-> <<>>, total |-> 0]
    /\ repeat = [same |-> FALSE, ret |-> NoRet]
    /\ threads = [t \in 1..MaxThreads |-> IdleThread]
    /\ quick = NoQuick
    /\ norm = <<>>
    /\ score_in = [called |-> FALSE, rule |-> NoRule, details |-> NoDetails]
    /\ last_score = NoScore
    /\ enable_ai_analysis = FALSE
    /\ ai_ret = NoAi
    /\ probe = NoProbe
    /\ field_pattern_cache = {}
    /\ cache_hits = 0
    /\ cache_misses = 0
    /\ lookups = 0

\* RuleEngine(rule_dir) on a directory that does not exist: _load_rules
\* raises FileNotFoundError, which leaves __init__.
ConstructMissingDir ==
    /\ phase = "Uninitialized"
    /\ phase' = "Failed"
    /\ ctor_error' = "FileNotFoundError"
    /\ UNCHANGED <<rules, compiled_rules, rule_stats, calls, last_entry, last_ret, rule_dir,
                   returned, repeat>>
    /\ UNCHANGED parserVars
    /\ UNCHANGED extVars
    /\ UNCHANGED scoreVars
    /\ UNCHANGED unitVars

\* RuleEngine(rule_dir) on an existing directory: _load_rules, _compile_rules.
\* An exception that leaves _load_rules leaves __init__ before self.rules is
\* assigned.
ConstructFrom(dir) ==
    /\ phase = "Uninitialized"
    /\ IF LoadRaises(dir)
       THEN /\ phase' = "Failed"
            /\ ctor_error' = "UnicodeDecodeError"
            /\ UNCHANGED <<rules, compiled_rules>>
       ELSE /\ phase' = "Ready"
            /\ rules' = LoadRules(dir)
            /\ compiled_rules' = CompileRules(LoadRules(dir), 1)
            /\ UNCHANGED ctor_error
    /\ UNCHANGED <<rule_stats, calls, last_entry, last_ret, returned, repeat>>

Construct ==
    /\ \E dir \in Dirs : ConstructFrom(dir)
    /\ UNCHANGED rule_dir
    /\ UNCHANGED parserVars
    /\ UNCHANGED extVars
    /\ UNCHANGED scoreVars
    /\ UNCHANGED unitVars

\* engine.match_log(log_entry)
MatchLogCall ==
    /\ phase = "Ready"
    /\ calls < MaxCalls
    /\ \E entry \in LogEntries :
         \E r \in {MatchLog(compiled_rules, rule_stats, entry)} :
            /\ last_entry' = entry
            /\ last_ret' = [exc |-> r.exc, results |-> r.results]
            /\ rule_stats' = r.stats
            /\ returned' = CountReturned(returned, r.results)
            /\ repeat' = IF calls > 0 /\ entry = last_entry
                         THEN [same |-> TRUE, ret |-> last_ret]
                         ELSE [same |-> FALSE, ret |-> NoRet]
    /\ calls' = calls + 1
    /\ UNCHANGED <<phase, ctor_error, rules, compiled_rules, rule_dir>>
    /\ UNCHANGED parserVars
    /\ UNCHANGED extVars
    /\ UNCHANGED scoreVars
    /\ UNCHANGED unitVars

Next == ConstructMissingDir \/ Construct \/ MatchLogCall

Spec == Init /\ [][Next]_vars

\* The same construction, the directory it was given kept in rule_dir.
ConstructRecorded ==
    /\ \E dir \in Dirs : ConstructFrom(dir) /\ rule_dir' = dir
    /\ UNCHANGED parserVars
    /\ UNCHANGED extVars
    /\ UNCHANGED scoreVars
    /\ UNCHANGED unitVars

LoadNext == ConstructMissingDir \/ ConstructRecorded \/ MatchLogCall

LoadSpec == Init /\ [][LoadNext]_vars

\* match_log called from worker threads on one engine, with no lock.  A
\* thread can be preempted between any two bytecodes; what the other threads
\* can observe of it are its accesses to self.rule_stats, so a call is cut
\* into: entry and _quick_match; per candidate, _context_analysis, scoring,
\* the append and the read of the counter (BINARY_SUBSCR, which on a
\* defaultdict inserts a missing key with 0); the write of the counter plus
\* one (STORE_SUBSCR); the sort and the return.
ThreadCall(t) ==
    /\ phase = "Ready"
    /\ threads[t].pc = "idle"
    /\ \E entry \in LogEntries :
         IF entry = <<>>
         THEN threads' = [threads EXCEPT ![t].pc = "done"]
         ELSE \E q \in {QuickMatch(compiled_rules, entry)} :
                threads' = [threads EXCEPT ![t].entry = entry,
                                           ![t].pc = IF q.exc THEN "raised" ELSE "loop",
                                           ![t].todo = q.matches]
    /\ UNCHANGED <<engineVars, quick, norm>>
    /\ UNCHANGED parserVars
    /\ UNCHANGED extVars
    /\ UNCHANGED scoreVars

ThreadLoad(t) ==
    /\ threads[t].pc = "loop"
    /\ threads[t].todo # <<>>
    /\ \E match \in {Head(threads[t].todo)} :
       \E c \in {ContextAnalysis(match, threads[t].entry)} :
       \E id \in {DictGet(match, "rule_id", "unknown")} :
         IF c = "raise"
         THEN /\ threads' = [threads EXCEPT ![t].pc = "raised"]
              /\ UNCHANGED rule_stats
         ELSE IF c = "keep"
         THEN /\ rule_stats' = IF id \in DOMAIN rule_stats THEN rule_stats
                                ELSE (id :> 0) @@ rule_stats
              /\ threads' = [threads EXCEPT
                      ![t].pc = "store",
                      ![t].tmp = IF id \in DOMAIN rule_stats THEN rule_stats[id] ELSE 0,
                      ![t].matched = Append(@, MatchResult(match, threads[t].entry))]
         ELSE /\ threads' = [threads EXCEPT ![t].todo = Tail(@)]
              /\ UNCHANGED rule_stats
    /\ UNCHANGED <<phase, ctor_error, rules, compiled_rules, calls, last_entry, last_ret,
                   rule_dir, returned, repeat, quick, norm>>
    /\ UNCHANGED parserVars
    /\ UNCHANGED extVars
    /\ UNCHANGED scoreVars

ThreadStore(t) ==
    /\ threads[t].pc = "store"
    /\ \E id \in {DictGet(Head(threads[t].todo), "rule_id", "unknown")} :
         rule_stats' = [rule_stats EXCEPT ![id] = threads[t].tmp + 1]
    /\ threads' = [threads EXCEPT ![t].pc = "loop", ![t].todo = Tail(@)]
    /\ UNCHANGED <<phase, ctor_error, rules, compiled_rules, calls, last_entry, last_ret,
                   rule_dir, returned, repeat, quick, norm>>
    /\ UNCHANGED parserVars
    /\ UNCHANGED extVars
    /\ UNCHANGED scoreVars

ThreadReturn(t) ==
    /\ threads[t].pc = "loop"
    /\ threads[t].todo = <<>>
    /\ threads' = [threads EXCEPT ![t].pc = "done",
                                  ![t].results = SortResults(threads[t].matched)]
    /\ UNCHANGED <<engineVars, quick, norm>>
    /\ UNCHANGED parserVars
    /\ UNCHANGED extVars
    /\ UNCHANGED scoreVars

ThreadStep == \E t \in 1..MaxThreads :
                 ThreadCall(t) \/ ThreadLoad(t) \/ ThreadStore(t) \/ ThreadReturn(t)

ConcNext == Construct \/ ThreadStep

ConcSpec == Init /\ [][ConcNext]_vars

\* RuleEngine(rule_dir) on a directory of DecodeDirs, then
\* engine._quick_match(log_entry) on its own.
ConstructDecode ==
    /\ \E dir \in DecodeDirs : ConstructFrom(dir)
    /\ UNCHANGED rule_dir
    /\ UNCHANGED parserVars
    /\ UNCHANGED extVars
    /\ UNCHANGED scoreVars
    /\ UNCHANGED unitVars

QuickMatchCall ==
    /\ phase = "Ready"
    /\ ~quick.called
    /\ \E entry \in DecodeEntries :
         \E q \in {QuickMatch(compiled_rules, entry)} :
            quick' = [called |-> TRUE, entry |-> entry, exc |-> q.exc,
                      matches |-> q.matches]
    /\ UNCHANGED <<threads, norm>>
    /\ UNCHANGED engineVars
    /\ UNCHANGED parserVars
    /\ UNCHANGED extVars
    /\ UNCHANGED scoreVars

DecodeNext == ConstructDecode \/ QuickMatchCall

DecodeSpec == Init /\ [][DecodeNext]_vars

\* engine._decode_and_normalize(text) on its own, and then on what it
\* returned.
NormalizeStart ==
    /\ norm = <<>>
    /\ \E text \in NormTexts : norm' = <<text, DecodeAndNormalize(text)>>
    /\ UNCHANGED <<threads, quick>>
    /\ UNCHANGED engineVars
    /\ UNCHANGED parserVars
    /\ UNCHANGED extVars
    /\ UNCHANGED scoreVars

NormalizeAgain ==
    /\ norm # <<>>
    /\ Len(norm) <= MaxNormalize
    /\ norm' = Append(norm, DecodeAndNormalize(norm[Len(norm)]))
    /\ UNCHANGED <<threads, quick>>
    /\ UNCHANGED engineVars
    /\ UNCHANGED parserVars
    /\ UNCHANGED extVars
    /\ UNCHANGED scoreVars

NormNext == NormalizeStart \/ NormalizeAgain

NormSpec == Init /\ [][NormNext]_vars

\* LogParser(log_format_config) with the fields of one of the grammars.
ConstructParser ==
    /\ log_fields = <<>>
    /\ log_fields' \in Grammars
    /\ UNCHANGED <<parsed_count, failed_count, blocked_count, parse_calls, last_line,
                   last_parse, field_pattern_cache, cache_hits, cache_misses, lookups>>
    /\ UNCHANGED extVars
    /\ UNCHANGED engineVars
    /\ UNCHANGED scoreVars
    /\ UNCHANGED unitVars

\* parser.parse_log_line(line)
ParseLogLineCall ==
    /\ log_fields # <<>>
    /\ parse_calls < MaxParseCalls
    /\ \E line \in Lines, fault \in Faults :
         \E r \in {ParseLogLine(log_fields, line, fault)},
            c \in {PartialLookups(log_fields, 1,
                                  [cache |-> field_pattern_cache, hits |-> cache_hits,
                                   misses |-> cache_misses, lookups |-> lookups])} :
            /\ last_line' = line
            /\ last_parse' = [exc |-> r.exc, ret |-> r.ret, record |-> r.record,
                              path |-> r.path]
            /\ parsed_count' = parsed_count + r.parsed
            /\ failed_count' = failed_count + r.failed
            /\ blocked_count' = blocked_count + r.blocked
            /\ IF r.path = "partial"
               THEN /\ field_pattern_cache' = c.cache
                    /\ cache_hits' = c.hits
                    /\ cache_misses' = c.misses
                    /\ lookups' = c.lookups
               ELSE UNCHANGED <<field_pattern_cache, cache_hits, cache_misses, lookups>>
    /\ parse_calls' = parse_calls + 1
    /\ UNCHANGED log_fields
    /\ UNCHANGED extVars
    /\ UNCHANGED engineVars
    /\ UNCHANGED scoreVars
    /\ UNCHANGED unitVars

\* parser.clear_cache()
ClearCacheCall ==
    /\ log_fields # <<>>
    /\ field_pattern_cache' = {}
    /\ cache_hits' = 0
    /\ cache_misses' = 0
    /\ lookups' = 0
    /\ UNCHANGED <<log_fields, parsed_count, failed_count, blocked_count, parse_calls,
                   last_line, last_parse>>
    /\ UNCHANGED extVars
    /\ UNCHANGED engineVars
    /\ UNCHANGED scoreVars
    /\ UNCHANGED unitVars

CacheNext == ConstructParser \/ ParseLogLineCall \/ ClearCacheCall

CacheSpec == Init /\ [][CacheNext]_vars

ParserNext == ConstructParser \/ ParseLogLineCall

ParserSpec == Init /\ [][ParserNext]_vars

\* engine._calculate_threat_score(rule, match_details) on its own.
CalculateThreatScoreCall ==
    /\ ~score_in.called
    /\ \E rule \in ScoreRules, details \in ScoreDetails :
         /\ score_in' = [called |-> TRUE, rule |-> rule, details |-> details]
         /\ last_score' = CalculateThreatScore(rule, details)
    /\ UNCHANGED engineVars
    /\ UNCHANGED parserVars
    /\ UNCHANGED extVars
    /\ UNCHANGED unitVars

ScoreNext == CalculateThreatScoreCall

ScoreSpec == Init /\ [][ScoreNext]_vars

\* RuleEngine(rule_dir, enable_ai_analysis): the analyzer is switched on
\* when it was asked for and could be imported.
ConstructAi ==
    /\ \E dir \in Dirs : ConstructFrom(dir)
    /\ \E requested, available \in BOOLEAN :
         enable_ai_analysis' = (requested /\ available)
    /\ UNCHANGED <<rule_dir, ai_ret, probe>>
    /\ UNCHANGED parserVars
    /\ UNCHANGED scoreVars
    /\ UNCHANGED unitVars

\* engine.match_log_with_ai(log_entry)
MatchLogWithAiCall ==
    /\ phase = "Ready"
    /\ ~ai_ret.called
    /\ \E entry \in LogEntries, ai \in AiAnswers :
         \E r \in {MatchLogWithAi(compiled_rules, rule_stats, entry,
                                  enable_ai_analysis, ai)} :
            /\ last_entry' = entry
            /\ last_ret' = [exc |-> r.exc, results |-> r.traditional]
            /\ rule_stats' = r.stats
            /\ returned' = CountReturned(returned, r.traditional)
            /\ ai_ret' = [called |-> TRUE, traditional |-> r.traditional,
                          results |-> r.results]
    /\ calls' = calls + 1
    /\ UNCHANGED <<phase, ctor_error, rules, compiled_rules, rule_dir, repeat,
                   enable_ai_analysis, probe>>
    /\ UNCHANGED parserVars
    /\ UNCHANGED scoreVars
    /\ UNCHANGED unitVars

AiNext == ConstructMissingDir \/ ConstructAi \/ MatchLogWithAiCall

AiSpec == Init /\ [][AiNext]_vars

\* engine.match_log(log_entry), the record looked at again after the call.
MatchLogFramed ==
    /\ phase = "Ready"
    /\ calls < MaxCalls
    /\ \E entry \in LogEntries :
         \E r \in {MatchLog(compiled_rules, rule_stats, entry)},
            left \in {MatchLogLeaves(rules, compiled_rules, entry)} :
            /\ last_entry' = entry
            /\ last_ret' = [exc |-> r.exc, results |-> r.results]
            /\ rule_stats' = r.stats
            /\ returned' = CountReturned(returned, r.results)
            /\ repeat' = IF calls > 0 /\ entry = last_entry
                         THEN [same |-> TRUE, ret |-> last_ret]
                         ELSE [same |-> FALSE, ret |-> NoRet]
            /\ rules' = left.rules
            /\ compiled_rules' = left.compiled_rules
            /\ probe' = [op |-> "match_log", given |-> entry, left |-> left.log_entry,
                         stats |-> <<>>]
    /\ calls' = calls + 1
    /\ UNCHANGED <<phase, ctor_error, rule_dir, enable_ai_analysis, ai_ret>>
    /\ UNCHANGED parserVars
    /\ UNCHANGED scoreVars
    /\ UNCHANGED unitVars

\* engine.get_rule_statistics()
GetRuleStatisticsCall ==
    /\ phase = "Ready"
    /\ probe' = [op |-> "get_rule_statistics", given |-> <<>>, left |-> <<>>,
                 stats |-> GetRuleStatistics(rules, rule_stats)]
    /\ UNCHANGED <<enable_ai_analysis, ai_ret>>
    /\ UNCHANGED engineVars
    /\ UNCHANGED parserVars
    /\ UNCHANGED scoreVars
    /\ UNCHANGED unitVars

\* parser._parse_json_fields(result) on its own.
ParseJsonFieldsCall ==
    /\ probe.op = "none"
    /\ \E record \in JsonRecords :
         probe' = [op |-> "_parse_json_fields", given |-> record,
                   left |-> ParseJsonFields(record, 1, FALSE), stats |-> <<>>]
    /\ UNCHANGED <<enable_ai_analysis, ai_ret>>
    /\ UNCHANGED engineVars
    /\ UNCHANGED parserVars
    /\ UNCHANGED scoreVars
    /\ UNCHANGED unitVars

JsonNext == ParseJsonFieldsCall

JsonSpec == Init /\ [][JsonNext]_vars

FrameNext == ConstructMissingDir \/ ConstructDecode \/ MatchLogFramed \/ GetRuleStatisticsCall

FrameSpec == Init /\ [][FrameNext]_vars

---------------------------------------------------------------------------
(* Properties of the engine and of the parser.                             *)

Results == last_ret.results

\* The value of a top-level string field of the last record, <<>> when the
\* record has no such string.
EntryText(name) ==
    IF HasKey(last_entry, StrV(name)) /\ Lookup(last_entry, StrV(name)).t = "str"
    THEN Lookup(last_entry, StrV(name)).s ELSE <<>>

\* The engine holds exactly one rule, whose pattern is a single regex on one
\* weighted field, and the last record matched carries a matching string in
\* that field and neither a user agent nor headers.
OneWeightedFieldRuleMatched ==
    /\ phase = "Ready"
    /\ calls > 0
    /\ Len(compiled_rules) = 1
    /\ compiled_rules[1].rule.pattern.kind = "dict"
    /\ Len(compiled_rules[1].rule.pattern.items) = 1
    /\ compiled_rules[1].rule.pattern.items[1][1] \in WeightedFields
    /\ Len(last_entry) = 1
    /\ RegexSearch(compiled_rules[1].rule.pattern.items[1][2],
                   EntryText(compiled_rules[1].rule.pattern.items[1][1]))

\* C1: with exactly one rule whose pattern is one regex on one weighted field,
\* match_log on a record that matches returns exactly one result, whose
\* matched_fields is that field and whose score is at least
\* min(10.0, severity base + field weight).
C1_SingleRuleScoreIncludesFieldWeight ==
    OneWeightedFieldRuleMatched =>
        /\ ~last_ret.exc
        /\ Len(Results) = 1
        /\ Results[1].match_details.matched_fields
             = <<compiled_rules[1].rule.pattern.items[1][1]>>
        /\ Results[1].threat_score.score
             >= Min(1000, severity_scores(RuleGet(compiled_rules[1].rule, "severity", "medium"))
                          + field_weights(compiled_rules[1].rule.pattern.items[1][1]))

\* A text of seven tokens n.n.n.n, each n of one to three digits and at
\* most 255.
IsIPv4(text) ==
    /\ Len(text) = 7
    /\ \A k \in {2, 4, 6} : text[k] = "."
    /\ \A k \in {1, 3, 5, 7} :
         IsNum(text[k]) /\ Digits(text[k]) \in 1..3 /\ NumVal(text[k]) \in 0..255

\* C2: every record parse_log_line returns, from the full match or from the
\* partial parse, has a src_ip that is a valid IPv4 address.
C2_ReturnedRecordHasValidSrcIp ==
    last_parse.ret = "record" =>
        /\ HasKey(last_parse.record, K("src_ip"))
        /\ Lookup(last_parse.record, K("src_ip")).t = "str"
        /\ IsIPv4(Lookup(last_parse.record, K("src_ip")).s)

\* C3: every call of parse_log_line raises exactly one of parsed_count,
\* failed_count and blocked_count by one, so total_processed is the number
\* of calls made.
C3_EveryCallCountedOnce == TotalProcessed = parse_calls

\* C4: every ThreatScore _calculate_threat_score computes has
\* 1.0 <= score <= 10.0 and 0.1 <= confidence <= 1.0.
C4_ScoreAndConfidenceInRange ==
    score_in.called =>
        /\ last_score.score >= 100
        /\ last_score.score <= 1000
        /\ last_score.confidence >= 10
        /\ last_score.confidence <= 100

\* A score computed from contributions that sum above 10.0, and a confidence
\* from contributions that sum above 1.0.
C4_ClampReached ==
    /\ score_in.called
    /\ RawScore(score_in.rule, score_in.details) > 1000
    /\ RawConfidence(score_in.rule, score_in.details) > 100
    /\ last_score.score = 1000
    /\ last_score.confidence = 100

\* The severity the thresholds give to a score.
SeverityOf(score) ==
    CASE score >= 900 -> "critical"
      [] score >= 750 /\ score < 900 -> "high"
      [] score >= 500 /\ score < 750 -> "medium"
      [] OTHER -> "low"

\* C5: the severity of every result of match_log is the threshold function
\* of its score: critical from 9.0, high from 7.5, medium from 5.0, low
\* below; so 9.0 is critical and 8.99 high, 7.5 high and 7.49 medium,
\* 5.0 medium and 4.99 low.
C5_SeverityFollowsThresholds ==
    /\ \A i \in 1..Len(Results) :
         Results[i].threat_score.severity = SeverityOf(Results[i].threat_score.score)
    /\ FinalSeverity(900) = "critical"
    /\ FinalSeverity(899) = "high"
    /\ FinalSeverity(750) = "high"
    /\ FinalSeverity(749) = "medium"
    /\ FinalSeverity(500) = "medium"
    /\ FinalSeverity(499) = "low"

\* One call returns a result scored exactly 9.0 and one scored exactly 5.0.
C5_BoundaryScoresReturned ==
    /\ \E i \in 1..Len(Results) :
         Results[i].threat_score.score = 900 /\ Results[i].threat_score.severity = "critical"
    /\ \E i \in 1..Len(Results) :
         Results[i].threat_score.score = 500 /\ Results[i].threat_score.severity = "medium"

\* The position of a rule in the order of evaluation, the compiled table.
EvalPos(id) == CHOOSE k \in 1..Len(compiled_rules) : compiled_rules[k].id = id

\* C6: the list match_log returns is ordered by non-increasing score, and
\* results of equal score are in the order their rules were evaluated.
C6_SortedByScoreTiesInRuleOrder ==
    \A i, j \in 1..Len(Results) :
        i < j =>
          /\ Results[i].threat_score.score >= Results[j].threat_score.score
          /\ Results[i].threat_score.score = Results[j].threat_score.score
               => EvalPos(Results[i].rule_id) < EvalPos(Results[j].rule_id)

\* A call returns two results of equal score, from two different rules.
C6_TieReturned ==
    \E i, j \in 1..Len(Results) :
        /\ i < j
        /\ Results[i].threat_score.score = Results[j].threat_score.score
        /\ Results[i].rule_id # Results[j].rule_id

CrawlerTokens == {"googlebot", "bingbot", "slurp", "duckduckbot"}

\* The user agent of the last record names a known crawler, in any case.
CrawlerUserAgent ==
    \E k \in 1..Len(EntryText(<<"user_agent">>)) :
        Lower(EntryText(<<"user_agent">>)[k]) \in CrawlerTokens

\* C7: a record whose user_agent contains googlebot, bingbot, slurp or
\* duckduckbot, in any letter case, gets no result, whatever rules match.
C7_CrawlerSuppressesAllMatches ==
    (calls > 0 /\ CrawlerUserAgent) => Results = <<>>

\* A crawler record that a rule of the table matches; its user agent is not
\* written in lower case.
C7_CrawlerMatchedByRule ==
    /\ calls > 0
    /\ CrawlerUserAgent
    /\ EntryText(<<"user_agent">>) # LowerText(EntryText(<<"user_agent">>))
    /\ ~last_ret.exc
    /\ QuickMatch(compiled_rules, last_entry).matches # <<>>
    /\ Results = <<>>

\* C8: no exception leaves match_log, whatever the record: a user_agent that
\* is no string and header keys that are no strings included.
C8_NoExceptionLeavesMatchLog == ~last_ret.exc

\* C9: no exception leaves parse_log_line: the call returns a record or
\* None, and an internal failure is counted as a failed line.
C9_NoExceptionLeavesParseLogLine ==
    /\ ~last_parse.exc
    /\ last_parse.ret \in {"record", "none"}

\* An exception raised inside the call was caught by a handler, which
\* counted the failure and returned None.
C9_InternalFailureHandled ==
    /\ last_parse.path = "handler"
    /\ last_parse.ret = "none"
    /\ failed_count > 0

\* C10: construction fails when the rule directory is missing, holds no rule
\* file, or yields no rule: an engine that is ready has at least one rule.
C10_ReadyEngineHasRules ==
    /\ phase = "Ready" => Len(rules) >= 1
    /\ phase = "Failed" => ctor_error # "none"

\* A rule file that parses to a rule holding a name and a pattern whose
\* regexes all compile.
WellFormedFile(f) ==
    /\ f.kind = "dict"
    /\ f.rule.name # Absent
    /\ f.rule.pattern.kind \in {"dict", "str"}
    /\ \A i \in 1..Len(f.rule.pattern.items) : PatternCompiles(f.rule.pattern.items[i][2])
    /\ PatternCompiles(f.rule.pattern.s)

InCompiledTable(f) ==
    \E k \in 1..Len(compiled_rules) : compiled_rules[k].rule.source_file = f.fname

\* C11: whatever malformed rule files a directory holds (no name or pattern,
\* an unparsable file, a regex that does not compile), construction
\* completes, and the compiled table holds every well-formed rule of the
\* directory and none of the malformed ones.
C11_BadRuleFilesAreSkipped ==
    (\E i \in 1..Len(rule_dir) : ~WellFormedFile(rule_dir[i])) =>
        /\ phase = "Ready"
        /\ \A i \in 1..Len(rule_dir) :
             WellFormedFile(rule_dir[i]) <=> InCompiledTable(rule_dir[i])

\* C17: total_rules of get_rule_statistics is the number of entries of the
\* compiled rule table; a rule that was loaded but did not compile is not
\* counted.
C17_TotalRulesIsCompiledTableSize ==
    phase = "Ready" => TotalRules(rules) = Len(compiled_rules)

\* A counter never goes down and never disappears.
CountsNeverDecrease ==
    \A id \in DOMAIN rule_stats :
        id \in DOMAIN rule_stats' /\ rule_stats'[id] >= rule_stats[id]

\* C12: after any sequence of match_log calls the trigger count of each
\* rule_id is the number of MatchResults with that rule_id returned so far,
\* total_matches is the number of all MatchResults returned, and no count
\* ever decreases; a candidate dropped by context analysis is not counted.
C12_StatsCountReturnedResults ==
    /\ [](/\ rule_stats = returned.counts
          /\ TotalMatches(rule_stats) = returned.total)
    /\ [][CountsNeverDecrease]_vars

\* After a call that counted a result, a call whose candidates were all
\* dropped as crawler traffic.
C12_CountedThenDropped ==
    /\ calls = 2
    /\ returned.total > 0
    /\ ~last_ret.exc
    /\ QuickMatch(compiled_rules, last_entry).matches # <<>>
    /\ Results = <<>>

ReturnedAcrossThreads(id) ==
    LET n[t \in 0..MaxThreads] ==
            IF t = 0 THEN 0
            ELSE n[t - 1] + Cardinality({ i \in 1..Len(threads[t].results) :
                                            threads[t].results[i].rule_id = id })
    IN n[MaxThreads]

AllRuleIds == { compiled_rules[k].id : k \in 1..Len(compiled_rules) }

\* C13: match_log called concurrently from several threads on one engine
\* loses no statistics update: once every call has finished, the count of each
\* rule is the number of MatchResults with that rule_id returned across the
\* threads.
C13_NoUpdateLost ==
    (\A t \in 1..MaxThreads : threads[t].pc \in {"done", "raised"})
        => \A id \in AllRuleIds \cup DOMAIN rule_stats :
              (IF id \in DOMAIN rule_stats THEN rule_stats[id] ELSE 0)
                  = ReturnedAcrossThreads(id)

\* C16: _decode_and_normalize applied again and again to its own output
\* never comes back to a value it has left (no cycle between distinct values),
\* and after finitely many applications, MaxNormalize at most for the texts of
\* the model, returns its argument.
C16_NormalizeReachesFixedPoint ==
    /\ \A i, j \in 1..Len(norm) :
          i < j /\ norm[i] = norm[j] => \A k \in i..j : norm[k] = norm[i]
    /\ Len(norm) > MaxNormalize => norm[Len(norm)] = norm[Len(norm) - 1]

\* A text that three applications change one after the other and the fourth
\* leaves alone.
C16_ThreeLayersPeeled ==
    /\ Len(norm) = MaxNormalize + 1
    /\ norm[1] # norm[2] /\ norm[2] # norm[3] /\ norm[3] # norm[4]
    /\ norm[Len(norm)] = norm[Len(norm) - 1]

\* C18: every MatchResult returned by match_log whose match_details has
\* required_decode set carries evasion_technique among its attack_vectors and
\* obfuscation_attempt among its risk_factors, and has the score and the
\* confidence that the scorer gives its rule with these match_details, the
\* decode bonus (+2.0, +0.15) included.
C18_DecodedResultCarriesEvasionBonus ==
    \A i \in 1..Len(Results) :
        Results[i].match_details.required_decode =>
            /\ "evasion_technique" \in Results[i].threat_score.attack_vectors
            /\ "obfuscation_attempt" \in Results[i].threat_score.risk_factors
            /\ Results[i].threat_score.score
                   = CalculateThreatScore(Results[i].rule, Results[i].match_details).score
            /\ Results[i].threat_score.confidence
                   = CalculateThreatScore(Results[i].rule,
                                          Results[i].match_details).confidence

\* The value of a field as _quick_match receives it, before any decoding.
RawValue(entry, field) ==
    LET a == GetFieldValue(entry, field)
    IN IF Truthy(a) THEN a
       ELSE GetFieldValue(ExtractAttackContext(entry).context, field)

RawText(entry, field) == PyStr(RawValue(entry, field))

\* Whether the _quick_match call reported the field as matched for rule k
\* of the compiled table.
Reported(k, field) ==
    \E i \in 1..Len(quick.matches) :
        /\ quick.matches[i].rule_id = compiled_rules[k].id
        /\ \E j \in 1..Len(quick.matches[i].details.matched_fields) :
              quick.matches[i].details.matched_fields[j] = field

\* The decode-required patterns: pairs of a rule of the compiled table and
\* one of its patterns.
DecodePatterns ==
    UNION { { <<k, p>> : p \in { q \in DOMAIN compiled_rules[k].compiled :
                                    compiled_rules[k].compiled[q].needs_decode } } :
            k \in 1..Len(compiled_rules) }

PatternOf(kp) == compiled_rules[kp[1]].compiled[kp[2]]

\* C15: the pattern of a decode-required field is tested against the decoded
\* value only: the field is reported as matched exactly when the pattern
\* matches normalize(raw value), whatever the raw value matches and whether or
\* not decoding changed it.
C15_DecodedValueDecidesTheMatch ==
    (quick.called /\ ~quick.exc) =>
        \A kp \in DecodePatterns :
            Reported(kp[1], PatternOf(kp).field)
                <=> /\ Truthy(RawValue(quick.entry, PatternOf(kp).field))
                    /\ RegexSearch(PatternOf(kp).regex,
                                   DecodeAndNormalize(RawText(quick.entry, PatternOf(kp).field)))

\* A raw value that matches the pattern, a decoded value that does not, and
\* the field not reported.
C15_RawMatchNotReported ==
    /\ quick.called /\ ~quick.exc
    /\ \E kp \in DecodePatterns :
          /\ RegexSearch(PatternOf(kp).regex, RawText(quick.entry, PatternOf(kp).field))
          /\ ~RegexSearch(PatternOf(kp).regex,
                          DecodeAndNormalize(RawText(quick.entry, PatternOf(kp).field)))
          /\ ~Reported(kp[1], PatternOf(kp).field)

\* C20: in the match details of every candidate, required_decode is set
\* exactly when one of the fields reported as matched was decode-required and
\* its decoded value differs from its raw value; a decode-required field whose
\* value changed but whose pattern did not match does not set the flag.
C20_RequiredDecodeMeansDecodedFieldMatched ==
    (quick.called /\ ~quick.exc) =>
        \A i \in 1..Len(quick.matches) :
            quick.matches[i].details.required_decode
                <=> \E kp \in DecodePatterns :
                       /\ compiled_rules[kp[1]].id = quick.matches[i].rule_id
                       /\ Reported(kp[1], PatternOf(kp).field)
                       /\ DecodeAndNormalize(RawText(quick.entry, PatternOf(kp).field))
                              # RawText(quick.entry, PatternOf(kp).field)

\* The formula of the threat score as the specification writes it, in
\* hundredths.
SumOf(seq) ==
    LET sum[i \in 0..Len(seq)] == IF i = 0 THEN 0 ELSE sum[i - 1] + seq[i]
    IN sum[Len(seq)]

Clamp(x, lo, hi) == IF x < lo THEN lo ELSE IF x > hi THEN hi ELSE x

BaseSeverityOf(rule) ==
    CASE rule.severity = "critical" -> 950
      [] rule.severity = "high"     -> 750
      [] rule.severity = "medium"   -> 550
      [] rule.severity = "low"      -> 350
      [] OTHER                      -> 550

HasFieldWeight(field) ==
    field \in { <<"request_body">>, <<"params">>, <<"user_agent">>, <<"request_path">>,
                <<"request_headers">>, <<"src_ip">> }

FieldWeightOf(field) ==
    CASE field = <<"request_body">>    -> 150
      [] field = <<"params">>          -> 120
      [] field = <<"user_agent">>      -> 80
      [] field = <<"request_path">>    -> 100
      [] field = <<"request_headers">> -> 130
      [] field = <<"src_ip">>          -> 70
      [] OTHER                         -> 0

InCategoryTable(rule) == rule.category \in Categories

PatternFields(rule) == IF rule.pattern.kind = "dict" THEN Len(rule.pattern.items) ELSE 0

MeetsDangerousCodes(rule) ==
    \E i \in 1..Len(rule.response_codes) : rule.response_codes[i] \in {200, 201, 202}

FormulaScore(rule, details) ==
    Clamp(BaseSeverityOf(rule)
          + SumOf([i \in 1..Len(details.matched_fields) |->
                      FieldWeightOf(details.matched_fields[i])])
          + (IF details.required_decode THEN 200 ELSE 0)
          + (IF InCategoryTable(rule) THEN category_threats(rule.category).score ELSE 0)
          + SumOf([i \in 1..Len(rule.attack_patterns) |->
                      IF IsHighRisk(rule.attack_patterns[i]) THEN 100
                      ELSE IF IsMediumRisk(rule.attack_patterns[i]) THEN 50 ELSE 0])
          + (IF PatternFields(rule) >= 5 THEN 30
             ELSE IF PatternFields(rule) >= 3 THEN 15 ELSE 0)
          + (IF rule.threat_level = "critical" THEN 100
             ELSE IF rule.threat_level = "high" THEN 50 ELSE 0)
          + (IF MeetsDangerousCodes(rule) THEN 40 ELSE 0),
          100, 1000)

\* The confidence but for the bonus of the matched fields.
FormulaConfidenceRest(rule, details) ==
    50
    + (IF details.required_decode THEN 15 ELSE 0)
    + (IF InCategoryTable(rule) THEN 12 ELSE 0)
    + SumOf([i \in 1..Len(rule.attack_patterns) |->
                IF IsHighRisk(rule.attack_patterns[i]) THEN 10
                ELSE IF IsMediumRisk(rule.attack_patterns[i]) THEN 5 ELSE 0])
    + (IF PatternFields(rule) >= 5 THEN 5 ELSE 0)
    + (IF rule.threat_level = "critical" THEN 10 ELSE 0)
    + (IF MeetsDangerousCodes(rule) THEN 8 ELSE 0)

\* C19 as stated: _calculate_threat_score returns the clamped sum of the
\* formula as score, and as confidence the clamped sum in which every matched
\* field adds 0.08.
C19_ConfidenceCountsEveryMatchedField ==
    score_in.called =>
        /\ last_score.score = FormulaScore(score_in.rule, score_in.details)
        /\ last_score.confidence
              = Clamp(FormulaConfidenceRest(score_in.rule, score_in.details)
                      + 8 * Len(score_in.details.matched_fields), 10, 100)

\* C19, amended: _calculate_threat_score returns the clamped sum of the
\* formula as score, and as confidence the clamped sum in which every matched
\* field that has a field weight adds 0.08; a matched field outside the weight
\* table adds nothing to either.
C19_ConfidenceCountsWeightedFields ==
    score_in.called =>
        /\ last_score.score = FormulaScore(score_in.rule, score_in.details)
        /\ last_score.confidence
              = Clamp(FormulaConfidenceRest(score_in.rule, score_in.details)
                      + 8 * Cardinality({ i \in 1..Len(score_in.details.matched_fields) :
                                            HasFieldWeight(score_in.details.matched_fields[i]) }),
                      10, 100)

\* A call whose only matched field has no weight, neither sum being clamped.
C19_UnweightedFieldScored ==
    /\ score_in.called
    /\ score_in.details.matched_fields = << <<"status_code">> >>
    /\ last_score.score > 100 /\ last_score.score < 1000
    /\ last_score.confidence > 10 /\ last_score.confidence < 100
    /\ score_in.rule.attack_patterns # <<>>

\* Whether pattern p of rule k of the compiled table finds a non-empty value
\* for its target field in the record of the _quick_match call and matches it.
PatternHits(k, p) ==
    LET info == compiled_rules[k].compiled[p]
    IN /\ Truthy(RawValue(quick.entry, info.field))
       /\ RegexSearch(info.regex,
                      IF info.needs_decode
                      THEN DecodeAndNormalize(RawText(quick.entry, info.field))
                      ELSE RawText(quick.entry, info.field))

CandidatesOf(k) ==
    { i \in 1..Len(quick.matches) : quick.matches[i].rule_id = compiled_rules[k].id }

\* C21: _quick_match returns a candidate for a compiled rule exactly when at
\* least one of the patterns of the rule found a non-empty value and matched
\* it (one pattern is enough), and never more than one candidate per rule.
C21_CandidateIffSomePatternMatched ==
    (quick.called /\ ~quick.exc) =>
        /\ \A k \in 1..Len(compiled_rules) :
              /\ CandidatesOf(k) # {}
                    <=> \E p \in DOMAIN compiled_rules[k].compiled : PatternHits(k, p)
              /\ Cardinality(CandidatesOf(k)) <= 1
        /\ \A i \in 1..Len(quick.matches) :
              \E k \in 1..Len(compiled_rules) : i \in CandidatesOf(k)

\* A rule of two patterns of which one matched and the other did not, and
\* which is a candidate.
C21_OneOfTwoPatternsMatched ==
    /\ quick.called /\ ~quick.exc
    /\ \E k \in 1..Len(compiled_rules) :
          /\ Len(compiled_rules[k].compiled) = 2
          /\ \E p, q \in 1..2 : PatternHits(k, p) /\ ~PatternHits(k, q)
          /\ CandidatesOf(k) # {}

\* C22: matched_fields of every candidate is a set: no target field name
\* occurs in it twice, also when a plain pattern and a decode-required pattern
\* of the rule resolve to the same target field and both match, so that the
\* weight of a field is added to the score once at most.
C22_MatchedFieldsHoldNoDuplicate ==
    \A i \in 1..Len(quick.matches) :
        \A a, b \in 1..Len(quick.matches[i].details.matched_fields) :
            a # b => quick.matches[i].details.matched_fields[a]
                        # quick.matches[i].details.matched_fields[b]


\* C23: match_log_with_ai leaves the ThreatScore of every result it obtained
\* from match_log as match_log created it: the same score and severity, the
\* severity the threshold function of the score, the score within
\* [1.0, 10.0].
C23_AiLeavesThreatScoresUnchanged ==
    ai_ret.called =>
        \A i \in 1..Len(ai_ret.traditional) :
            /\ ai_ret.results[i].threat_score = ai_ret.traditional[i].threat_score
            /\ ai_ret.results[i].threat_score.severity
                   = SeverityOf(ai_ret.results[i].threat_score.score)
            /\ ai_ret.results[i].threat_score.score \in 100..1000

RECURSIVE FirstDecoded(_, _)
FirstDecoded(record, i) ==
    IF i > Len(json_fields) THEN 0
    ELSE IF /\ HasKey(record, K(json_fields[i]))
            /\ Lookup(record, K(json_fields[i])).t = "str"
            /\ JsonLoads(Lookup(record, K(json_fields[i])).s).kind = "dict"
         THEN i
         ELSE FirstDecoded(record, i + 1)

\* C25: when a raw field decodes, every other field the record had keeps its
\* value and the raw field is gone; when none decodes, the record is as it
\* was.
C25_MergeKeepsExistingFields ==
    probe.op = "_parse_json_fields" =>
        LET i == FirstDecoded(probe.given, 1)
        IN IF i = 0 THEN probe.left = probe.given
           ELSE /\ ~HasKey(probe.left, K(json_fields[i]))
                /\ \A k \in 1..Len(probe.given) :
                       probe.given[k][1] # K(json_fields[i]) =>
                           /\ HasKey(probe.left, probe.given[k][1])
                           /\ Lookup(probe.left, probe.given[k][1]) = probe.given[k][2]

\* A raw field decoded to an object that has keys the record has too, src_ip
\* and url, and a key that is new.
C25_DecodedKeyClashes ==
    /\ probe.op = "_parse_json_fields"
    /\ FirstDecoded(probe.given, 1) > 0
    /\ HasKey(probe.given, K("url"))
    /\ LET items == JsonLoads(Lookup(probe.given,
                                     K(json_fields[FirstDecoded(probe.given, 1)])).s).items
       IN /\ \E j \in 1..Len(items) : items[j][1] = K("src_ip")
          /\ \E j \in 1..Len(items) : items[j][1] = K("url")
    /\ HasKey(probe.left, K("n"))

\* The tokens that hold the character '<' or '>'.
AngleTokens == {"<", ">", "</script>", "<*1500", "<*1000"}

\* C26: no string value of a record parse_log_line returns holds the
\* character '<' or '>'.
C26_NoAngleBracketInReturnedRecord ==
    last_parse.ret = "record" =>
        \A i \in 1..Len(last_parse.record) :
            last_parse.record[i][2].t = "str" =>
                \A j \in 1..Len(last_parse.record[i][2].s) :
                    last_parse.record[i][2].s[j] \notin AngleTokens

\* C27: every captured field of a returned record is at most
\* MAX_FIELD_VALUE_LENGTH characters and the truncation marker long.
C27_CapturedValueWithinLimit ==
    last_parse.ret = "record" =>
        \A i \in 1..Len(log_fields) :
            (/\ HasKey(last_parse.record, K(log_fields[i].name))
             /\ Lookup(last_parse.record, K(log_fields[i].name)).t = "str")
            => TextLen(Lookup(last_parse.record, K(log_fields[i].name)).s)
                   <= MAX_FIELD_VALUE_LENGTH + TokLen(TruncationMarker)

\* C28: when the composite pattern matches the line, every configured field
\* name is given the sanitized text its own pattern captured.
C28_FieldReceivesItsOwnCapture ==
    (last_line # <<>> /\ last_line.t = "str") =>
        LET m == CompositeMatch(log_fields, last_line.s, 1, NoGroups)
            mapped == GroupFields(log_fields, m.groups, 1, <<>>)
        IN m.ok =>
              \A i \in 1..Len(log_fields) :
                  /\ HasKey(mapped, K(log_fields[i].name))
                  /\ Lookup(mapped, K(log_fields[i].name))
                         = StrV(SanitizeFieldValue(m.own[i]))

\* The compiled patterns whose rule field name ends in _params, as
\* <<rule, pattern>> positions in the compiled table.
SuffixedPatterns ==
    UNION { { <<k, p>> : p \in { q \in DOMAIN compiled_rules[k].compiled :
                                    EndsWithParams(compiled_rules[k].compiled[q].key) } } :
            k \in 1..Len(compiled_rules) }

\* C29: for a rule field name that ends in _params the compiled pattern is
\* decode-required and its target field is the name without that last
\* _params, which is not the empty name.
C29_OnlyTrailingSuffixRemoved ==
    \A kp \in SuffixedPatterns :
        /\ PatternOf(kp).needs_decode
        /\ PatternOf(kp).field = SubSeq(PatternOf(kp).key, 1, Len(PatternOf(kp).key) - 1)
        /\ PatternOf(kp).field # <<>>

\* The distinct field patterns the parser was configured with.
ConfiguredPatterns == { log_fields[i].regex : i \in 1..Len(log_fields) }

\* C30: the cache never holds more than the distinct configured patterns,
\* hits and misses add up to the lookups made since the cache was last
\* cleared, no pattern is a miss twice between two clears, and a cleared
\* cache has size 0 and both counters 0.
C30_CacheCountsEveryLookup ==
    /\ Cardinality(field_pattern_cache) <= Cardinality(ConfiguredPatterns)
    /\ field_pattern_cache \subseteq ConfiguredPatterns
    /\ cache_hits + cache_misses = lookups
    /\ cache_misses <= Cardinality(field_pattern_cache)
    /\ lookups = 0 => (field_pattern_cache = {} /\ cache_hits = 0 /\ cache_misses = 0)

=============================================================================
